---- MODULE Spec2Model ----
(***************************************************************************)
(* Session / scenario registry and resource lifecycle of the Playwright    *)
(* MCP server (src/src/index.js).                                          *)
(*                                                                         *)
(* The server is one Node.js process.  A tools/call request runs the       *)
(* async CallToolRequestSchema handler; the code between two awaits runs   *)
(* atomically and every await is a suspension point at which the other     *)
(* in-flight handlers and the SIGINT handler may run.  Each action below   *)
(* is the code of one handler from one suspension point to the next.       *)
(*                                                                         *)
(* The PageDriver (Playwright) is external: an awaited driver call ends    *)
(* with success or with an exception, chosen by the action that resumes    *)
(* the handler; a call on a page whose context or browser is closed only   *)
(* ever ends with an exception.                                            *)
(***************************************************************************)
EXTENDS Integers, Sequences, FiniteSets, TLC

\* ------------------------------------------------------------------ bounds
MaxSessions == 2      \* start_session calls in one run (ids 1..MaxSessions)
MaxScenarios == 1     \* create_test_scenario calls in one run
MaxHandlers == 2      \* tools/call invocations in flight at the same time
MaxUpdates == 3       \* update_scenario_state calls on one scenario in one run
ExtraPushes == 2      \* pushes into a bounded log beyond its cap
MaxShots == 1         \* recorded screenshots of one session that succeed
MaxEvents == 2        \* entries captured by listeners and the console tool in one run
MaxLinked == 2        \* create_test_scenario calls in a run with several scenarios
MaxReuses == 1        \* start_session calls in one run whose id was generated before

\* --------------------------------------------------------------- constants
EventCap == 500       \* logEvent keeps the last 500 events
ConsoleLogCap == 100  \* the console listener keeps the last 100 logs
NetworkCap == 200     \* the request listener keeps the last 200 requests
HistoryCap == 100     \* the console tool keeps the last 100 commands
DefaultLimit == 20    \* console_history shows the last 20 commands by default

Handlers == 1..MaxHandlers

\* An id argument that is absent (undefined) and one that names nothing.
Absent == 0
NoSuch == -1

\* args.phase when the caller gives none (undefined).
NoPhase == "<undefined>"

\* args.role / args.label / args.recordScreenshots / args.headless as given by
\* the caller; "" is a missing (falsy) field.
RoleArgs == {""}
LabelArgs == {""}
RoleChoices == {"", "host"}
LabelChoices == {"", "P1"}
RoleFilterArgs == {"", "participant"}
RecordArgs == {TRUE}
HeadlessArgs == {TRUE}
DebugArgs == {TRUE}

\* A field of args that the caller leaves out (undefined).
Omitted == "<undefined>"

\* An object, array or number field of args: left out, or given with a value.
None == <<>>
Some(value) == <<value>>

\* The limit of console_history as the caller gives it.
LimitArgs == {None, Some(0), Some(1)}

\* The metadata of create_test_scenario as the caller gives it; "" is an empty
\* name.
NameArgs == {Omitted, "", "Study"}
DescriptionArgs == {Omitted, "d"}
ExperimentNameArgs == {Omitted, "e"}
TestParametersArgs == {None, Some("k" :> 1)}
TagsArgs == {None, Some(<<"t">>)}
InitialStateArgs == {None, Some("a" :> 1)}

MetadataArgs ==
    [name : NameArgs, description : DescriptionArgs, experimentName : ExperimentNameArgs,
     testParameters : TestParametersArgs, tags : TagsArgs, initialState : InitialStateArgs]

\* The metadata of a caller that gives none.
NoMetadata ==
    [name |-> Omitted, description |-> Omitted, experimentName |-> Omitted,
     testParameters |-> None, tags |-> None, initialState |-> None]

\* The url of a request or response event, and the status of a response.
UrlArgs == {"/a"}
StatusArgs == {"404"}
UrlChoices == {"/a", "/b"}
StatusChoices == {"200", "404"}

\* args.phase and args.customData of update_scenario_state.
PhaseArgs == {NoPhase, "", "running", "failed", "paused"}
CustomDataArgs == {<<>>, "a" :> 1, "b" :> 2, "a" :> 3}

VARIABLES
    nextSessionId,        \* generateSessionId: the next fresh id
    nextScenarioId,       \* generateScenarioId: the next fresh id
    regOrder,             \* persistentSessions: keys in insertion order, deleted ones included
    registered,           \* persistentSessions: keys currently in the Map
    session,              \* the session objects still referenced (sessionId -> fields)
    driver,               \* PageDriver side of each session: its context and browser
    testScenarios,        \* testScenarios: keys currently in the Map, in insertion order
    scenario,             \* the TestScenario objects still referenced (scenarioId -> fields)
    headlessBrowser,      \* shared browser of one-shot calls, headless
    headedBrowser,        \* shared browser of one-shot calls, headed
    handler,              \* in-flight CallToolRequestSchema invocations
    sigint,               \* the SIGINT handler
    response              \* the response the last step sent, if it sent one

vars == <<nextSessionId, nextScenarioId, regOrder, registered, session, driver,
          testScenarios, scenario, headlessBrowser, headedBrowser, handler, sigint,
          response>>

sharedVars == <<headlessBrowser, headedBrowser>>

\* ----------------------------------------------------------------- helpers
Range(s) == {s[k] : k \in 1..Len(s)}

RECURSIVE Without(_, _)
Without(s, x) ==
    IF s = <<>> THEN <<>>
    ELSE IF Head(s) = x THEN Without(Tail(s), x)
    ELSE <<Head(s)>> \o Without(Tail(s), x)

\* persistentSessions in Map iteration order.
persistentSessions == SelectSeq(regOrder, LAMBDA x : x \in registered)

\* ------------------------------------------------------------ TestScenario
\* data is the event's payload: the session it is about, or the phase and the
\* customData of an update.
EventData(sessionId, phase, customData) ==
    [sessionId |-> sessionId, phase |-> phase, customData |-> customData]

\* A push that shifts one entry too early.
pushCappedMutant(buf, item, cap) ==
    LET pushed == Append(buf, item)
    IN IF Len(pushed) >= cap THEN Tail(pushed) ELSE pushed

\* index.js 109-117, 226-237, 253-264, 1683-1692: push, then shift when the
\* array is longer than its cap.
pushCapped(buf, item, cap) ==
    LET pushed == Append(buf, item)
    IN IF Len(pushed) > cap THEN Tail(pushed) ELSE pushed

\* A logEvent that puts the event in front of the log.
logEventMutant(events, type, data) ==
    IF Len(events) >= EventCap THEN events
    ELSE <<[type |-> type, data |-> data]>> \o events

\* logEvent 108-118.
logEvent(events, type, data) ==
    pushCapped(events, [type |-> type, data |-> data], EventCap)

\* `value || fallback` for a string: undefined and the empty string are falsy.
OrElse(value, fallback) == IF value \in {Omitted, ""} THEN fallback ELSE value

\* `value || fallback` for an object or an array: only undefined is falsy.
OrElseObject(value, fallback) == IF value = None THEN fallback ELSE value[1]

\* index.js 58-74: the constructor.
TestScenario(metadata) ==
    [metadata |-> [name |-> OrElse(metadata.name, "Unnamed Scenario"),
                   description |-> OrElse(metadata.description, ""),
                   experimentName |-> OrElse(metadata.experimentName, ""),
                   testParameters |-> OrElseObject(metadata.testParameters, <<>>),
                   tags |-> OrElseObject(metadata.tags, <<>>)],
     sessions |-> <<>>,
     phase |-> "created",
     customData |-> OrElseObject(metadata.initialState, <<>>),
     events |-> <<>>]

NewScenario == TestScenario(NoMetadata)

memberIds(sc) == [k \in 1..Len(sc.sessions) |-> sc.sessions[k].sessionId]

\* An addSession that stores the label as the role and the role as the label.
addSessionMutant(sc, sessionId, role, label) ==
    LET entry == [sessionId |-> sessionId, role |-> label, label |-> role,
                  status |-> "active"]
    IN [sc EXCEPT !.sessions = Append(sc.sessions, entry),
                  !.events = logEvent(sc.events, "session_joined",
                                      EventData(sessionId, NoPhase, <<>>))]

addSession(sc, sessionId, role, label) ==
    LET entry == [sessionId |-> sessionId,
                  role |-> IF role = "" THEN "participant" ELSE role,
                  label |-> IF label = "" THEN ToString(sessionId) ELSE label,
                  status |-> "active"]
        present == \E k \in 1..Len(sc.sessions) : sc.sessions[k].sessionId = sessionId
        set == IF present
               THEN [k \in 1..Len(sc.sessions) |->
                        IF sc.sessions[k].sessionId = sessionId THEN entry ELSE sc.sessions[k]]
               ELSE Append(sc.sessions, entry)
    IN [sc EXCEPT !.sessions = set,
                  !.events = logEvent(sc.events, "session_joined", EventData(sessionId, NoPhase, <<>>))]

\* A removeSession that logs session_left whether or not the session is a member.
removeSessionMutant(sc, sessionId) ==
    [sc EXCEPT !.sessions = SelectSeq(sc.sessions, LAMBDA e : e.sessionId # sessionId),
               !.events = logEvent(sc.events, "session_left",
                                   EventData(sessionId, NoPhase, <<>>))]

\* A removeSession that empties the membership.
removeSessionClearMutant(sc, sessionId) ==
    IF \E k \in 1..Len(sc.sessions) : sc.sessions[k].sessionId = sessionId
    THEN [sc EXCEPT !.sessions = <<>>,
                    !.events = logEvent(sc.events, "session_left",
                                        EventData(sessionId, NoPhase, <<>>))]
    ELSE sc

removeSession(sc, sessionId) ==
    IF \E k \in 1..Len(sc.sessions) : sc.sessions[k].sessionId = sessionId
    THEN [sc EXCEPT !.sessions = SelectSeq(sc.sessions, LAMBDA e : e.sessionId # sessionId),
                    !.events = logEvent(sc.events, "session_left", EventData(sessionId, NoPhase, <<>>))]
    ELSE sc

\* A getSummary that counts the events where it should count the sessions.
getSummaryMutant(sc) ==
    [phase |-> sc.phase, customData |-> sc.customData,
     sessionCount |-> Len(sc.events), sessions |-> sc.sessions,
     eventCount |-> Len(sc.events)]

\* index.js 142-155: the state, the membership in Map order and the two counts.
getSummary(sc) ==
    [phase |-> sc.phase, customData |-> sc.customData,
     sessionCount |-> Len(sc.sessions), sessions |-> sc.sessions,
     eventCount |-> Len(sc.events)]

\* An updateState that assigns customData instead of merging into it.
updateStateMutant(sc, updates) ==
    [sc EXCEPT !.phase = IF updates.phase \notin {NoPhase, ""} THEN updates.phase
                         ELSE sc.phase,
               !.customData = IF updates.customData # <<>> THEN updates.customData
                              ELSE sc.customData,
               !.events = logEvent(sc.events, "state_updated",
                                   EventData(Absent, updates.phase, updates.customData))]

\* An updateState that does not take a scenario out of the phase "failed".
updateStateStickyMutant(sc, updates) ==
    [sc EXCEPT !.phase = IF updates.phase \notin {NoPhase, ""} /\ sc.phase # "failed"
                         THEN updates.phase ELSE sc.phase,
               !.customData = updates.customData @@ sc.customData,
               !.events = logEvent(sc.events, "state_updated",
                                   EventData(Absent, updates.phase, updates.customData))]

\* A falsy updates.phase (undefined, or the empty string) leaves the phase;
\* updates.customData is a map from keys to values, empty when the caller gives
\* none, and Object.assign copies its keys over the scenario's.
updateState(sc, updates) ==
    [sc EXCEPT !.phase = IF updates.phase \notin {NoPhase, ""} THEN updates.phase
                         ELSE sc.phase,
               !.customData = updates.customData @@ sc.customData,
               !.events = logEvent(sc.events, "state_updated",
                                   EventData(Absent, updates.phase, updates.customData))]

\* -------------------------------------------------------------- PageDriver
\* A page is usable while its context and its browser are open.
PageAlive(x) == driver[x].context = "open" /\ driver[x].browser = "open"

\* How an awaited page operation on session x can end: TRUE is success, FALSE
\* an exception.
PageOutcomes(x) == IF PageAlive(x) THEN {TRUE, FALSE} ELSE {FALSE}

\* close() of a context or browser: succeeds or throws.
CloseOutcomes == {TRUE, FALSE}

\* session.context.close() is called on session x.
CallContextClose(d, x) == [d EXCEPT ![x].closeCalled = TRUE]

ContextClosed(d, x) == [d EXCEPT ![x].context = "closed"]
BrowserClosed(d, x) == [d EXCEPT ![x].browser = "closed", ![x].context = "closed"]

\* ---------------------------------------------------------------- handlers
Idle ==
    [tool |-> "none", pc |-> "idle", sessionId |-> Absent, scenarioId |-> Absent,
     role |-> "", label |-> "", roleFilter |-> "", persistent |-> FALSE,
     headless |-> TRUE,
     sessionIds |-> <<>>, i |-> 0, closedCount |-> 0, membersPresent |-> FALSE,
     after |-> {}, metadata |-> NoMetadata, phase |-> NoPhase, customData |-> <<>>,
     screenshotNum |-> 0, limit |-> None, phases |-> <<>>,
     out |-> <<>>, result |-> "none"]

Running == sigint.pc # "exited"

\* A handler that throws where it should answer not-found.
DoneMutant(hr, result) ==
    [hr EXCEPT !.pc = "done", !.result = IF result = "notFound" THEN "error" ELSE result,
               !.role = "", !.label = "", !.headless = TRUE, !.screenshotNum = 0]

\* The response of a finished invocation: the handler returns an ordinary result
\* ("ok", "notFound", or "failed" when an inner catch reports a failure in the
\* text) or its outer catch block returns the isError result ("error").
Done(hr, result) ==
    [hr EXCEPT !.pc = "done", !.result = result, !.role = "", !.label = "",
               !.headless = TRUE, !.screenshotNum = 0]

\* What the last step wrote to the transport: nothing, or the response of the
\* invocation that step finished.
NoResponse == [Idle EXCEPT !.pc = "none"]

\* The objects a Map or a running handler still refers to; the others are
\* garbage.  start_session keeps its session object, end_test_scenario its
\* scenario object, across their awaits.
CollectSessions(sess, reg, hs) ==
    LET held == {hs[h].sessionId : h \in {g \in Handlers : hs[g].tool = "start_session"}}
    IN [x \in (DOMAIN sess) \cap (reg \cup held) |-> sess[x]]

CollectScenarios(scn, ts, hs) ==
    LET held == {hs[h].scenarioId : h \in {g \in Handlers : hs[g].tool = "end_test_scenario"}}
    IN [s \in (DOMAIN scn) \cap (Range(ts) \cup held) |-> scn[s]]

\* One step of invocation h, whose record becomes nr, leaving the two Maps as
\* given: a finished invocation sends its response and leaves its slot.
Commit(h, nr, reg, sess, ts, scn) ==
    LET hs == [g \in Handlers |->
                 IF g = h THEN (IF nr.pc = "done" THEN Idle ELSE nr)
                 ELSE IF nr.pc = "done" THEN [handler[g] EXCEPT !.after = @ \ {h}]
                 ELSE handler[g]]
    IN /\ handler' = hs
       /\ response' = IF nr.pc = "done" THEN nr ELSE NoResponse
       /\ registered' = reg
       /\ session' = CollectSessions(sess, reg, hs)
       /\ testScenarios' = ts
       /\ scenario' = CollectScenarios(scn, ts, hs)

\* A step that changes neither Map.
Step(h, nr) == Commit(h, nr, registered, session, testScenarios, scenario)

\* A new invocation takes the lowest free slot.
FreeSlot(h) ==
    /\ handler[h].pc = "idle"
    /\ \A g \in Handlers : g < h => handler[g].pc # "idle"

\* ids the caller of a tool can name: the ones a response or list_sessions has
\* shown, whether still registered or ended since.
SessionArgs == Range(regOrder)
ScenarioArgs == 1..(nextScenarioId - 1)

Init ==
    /\ nextSessionId = 1
    /\ nextScenarioId = 1
    /\ regOrder = <<>>
    /\ registered = {}
    /\ session = <<>>
    /\ driver = <<>>
    /\ testScenarios = <<>>
    /\ scenario = <<>>
    /\ headlessBrowser = "null"
    /\ headedBrowser = "null"
    /\ handler = [h \in Handlers |-> Idle]
    /\ sigint = [pc |-> "idle", pos |-> 0]
    /\ response = NoResponse

\* ------------------------------------------------- create_test_scenario
\* index.js 2006-2027, for the `most`-th scenario of a run at most.
CreateTestScenarioCall(h, metadata, most) ==
    /\ Running
    /\ FreeSlot(h)
    /\ nextScenarioId <= most
    /\ nextScenarioId' = nextScenarioId + 1
    /\ Commit(h, Done([Idle EXCEPT !.tool = "create_test_scenario",
                                   !.scenarioId = nextScenarioId,
                                   !.metadata = metadata], "ok"),
              registered, session,
              Append(testScenarios, nextScenarioId),
              (nextScenarioId :> TestScenario(metadata)) @@ scenario)
    /\ UNCHANGED <<nextSessionId, regOrder, driver, sharedVars, sigint>>

\* create_test_scenario by a caller that gives no metadata, and by one that
\* gives some.
CreateTestScenario(h) == CreateTestScenarioCall(h, NoMetadata, MaxScenarios)

CreateTestScenarioArgs(h) ==
    \E metadata \in MetadataArgs : CreateTestScenarioCall(h, metadata, MaxScenarios)

\* create_test_scenario in a run that has more than one scenario.
CreateTestScenarioSeveral(h) == CreateTestScenarioCall(h, NoMetadata, MaxLinked)

\* index.js 159-161 and 2007-2018: generateScenarioId is Date.now() and nine
\* base-36 digits of Math.random(); neither is checked against testScenarios, and
\* here it returns an id that is already a key: `set` replaces the entry.
CreateTestScenarioRepeatedId(h) ==
    /\ Running
    /\ FreeSlot(h)
    /\ \E scenarioId \in Range(testScenarios) :
          Commit(h, Done([Idle EXCEPT !.tool = "create_test_scenario",
                                      !.scenarioId = scenarioId], "ok"),
                 registered, session, testScenarios,
                 [scenario EXCEPT ![scenarioId] = NewScenario])
    /\ UNCHANGED <<nextSessionId, nextScenarioId, regOrder, driver, sharedVars, sigint>>

\* ------------------------------------------------ update_scenario_state
\* An update_scenario_state that registers the scenario it does not find.
UpdateScenarioStateCallMutant(h, scenarioId, phase, customData) ==
    LET hr == [Idle EXCEPT !.tool = "update_scenario_state", !.scenarioId = scenarioId,
                           !.phase = phase, !.customData = customData]
        found == IF scenarioId \in DOMAIN scenario THEN scenario[scenarioId]
                 ELSE NewScenario
    IN /\ Running
       /\ FreeSlot(h)
       /\ Commit(h, Done(hr, "ok"), registered, session,
                 IF scenarioId \in Range(testScenarios) THEN testScenarios
                 ELSE Append(testScenarios, scenarioId),
                 (scenarioId :> updateState(found, [phase |-> phase,
                                                     customData |-> customData]))
                     @@ scenario)
       /\ UNCHANGED <<nextSessionId, nextScenarioId, regOrder, driver, sharedVars, sigint>>

\* index.js 2106-2132.
UpdateScenarioStateCall(h, scenarioId, phase, customData) ==
    LET hr == [Idle EXCEPT !.tool = "update_scenario_state", !.scenarioId = scenarioId,
                           !.phase = phase, !.customData = customData]
    IN /\ Running
       /\ FreeSlot(h)
       /\ IF scenarioId \notin Range(testScenarios)
          THEN Step(h, Done(hr, "notFound"))
          ELSE Commit(h, Done(hr, "ok"), registered, session, testScenarios,
                      [scenario EXCEPT ![scenarioId] =
                          updateState(@, [phase |-> phase, customData |-> customData])])
       /\ UNCHANGED <<nextSessionId, nextScenarioId, regOrder, driver, sharedVars, sigint>>

UpdateScenarioState(h) ==
    \E scenarioId \in ScenarioArgs, phase \in PhaseArgs, customData \in CustomDataArgs :
       /\ scenarioId \in Range(testScenarios)
             => Len(scenario[scenarioId].events) < MaxUpdates
       /\ UpdateScenarioStateCall(h, scenarioId, phase, customData)

\* update_scenario_state by a caller that gives a phase and no customData.
UpdateScenarioStatePhase(h) ==
    \E scenarioId \in ScenarioArgs, phase \in {"running", "failed"} :
       /\ scenarioId \in Range(testScenarios)
             => Len(scenario[scenarioId].events) < MaxUpdates
       /\ UpdateScenarioStateCall(h, scenarioId, phase, <<>>)

\* update_scenario_state by a caller that gives neither phase nor customData.
UpdateScenarioStateEmpty(h) ==
    \E scenarioId \in ScenarioArgs :
       /\ scenarioId \in Range(testScenarios)
             => Len(scenario[scenarioId].events) < MaxUpdates
       /\ UpdateScenarioStateCall(h, scenarioId, NoPhase, <<>>)

\* ---------------------------------------------------- get_test_scenario
\* index.js 2050-2104.
GetTestScenario(h) ==
    /\ Running
    /\ FreeSlot(h)
    /\ \E scenarioId \in ScenarioArgs :
          LET hr == [Idle EXCEPT !.tool = "get_test_scenario", !.scenarioId = scenarioId]
          IN Step(h, IF scenarioId \in Range(testScenarios)
                     THEN Done([hr EXCEPT !.out = getSummary(scenario[scenarioId])], "ok")
                     ELSE Done(hr, "notFound"))
    /\ UNCHANGED <<nextSessionId, nextScenarioId, regOrder, driver, sharedVars, sigint>>

\* ------------------------------------------------------------ bounded logs
\* The payload of the next entry of a log: the entries of one log are numbered
\* in push order.
NextItem(buf) == IF buf = <<>> THEN 1 ELSE buf[Len(buf)].n + 1

\* setupDebugListeners 225-238: the page's 'console' event.
onConsole(sess) ==
    [sess EXCEPT !.consoleLogs = pushCapped(@, [n |-> NextItem(@)], ConsoleLogCap)]

\* setupDebugListeners 241-248: the page's 'pageerror' event.
onPageError(sess) == [sess EXCEPT !.errors = Append(@, [type |-> "js"])]

\* setupDebugListeners 251-266: the page's 'request' event; the entry has no
\* status yet.
onRequest(sess, url) ==
    IF sess.debugMode
    THEN [sess EXCEPT !.networkRequests =
             pushCapped(@, [n |-> NextItem(@), url |-> url, status |-> ""], NetworkCap)]
    ELSE sess

\* A 'response' listener that gives the status to the newest entry with the
\* response's url.
onResponseMutant(sess, url, status) ==
    LET ks == {k \in 1..Len(sess.networkRequests) : sess.networkRequests[k].url = url}
    IN IF sess.debugMode /\ ks # {}
       THEN [sess EXCEPT !.networkRequests[CHOOSE k \in ks : \A j \in ks : k >= j].status =
                status]
       ELSE sess

\* setupDebugListeners 268-279: the page's 'response' event: the first entry
\* with the response's url takes its status.
onResponse(sess, url, status) ==
    LET ks == {k \in 1..Len(sess.networkRequests) : sess.networkRequests[k].url = url}
    IN IF sess.debugMode /\ ks # {}
       THEN [sess EXCEPT !.networkRequests[CHOOSE k \in ks : \A j \in ks : k <= j].status =
                status]
       ELSE sess

\* setupDebugListeners 282-290: the page's 'requestfailed' event.
onRequestFailed(sess) == [sess EXCEPT !.errors = Append(@, [type |-> "network"])]

\* The logs that hold an entry: the three of each session, and the event log of
\* each scenario whose caller has begun to count in customData.
Exercised ==
    {<<"consoleLogs", x>> : x \in {y \in DOMAIN session : session[y].consoleLogs # <<>>}}
    \cup {<<"networkRequests", x>> :
              x \in {y \in DOMAIN session : session[y].networkRequests # <<>>}}
    \cup {<<"consoleHistory", x>> :
              x \in {y \in DOMAIN session : session[y].consoleHistory # <<>>}}
    \cup {<<"events", s>> : s \in {t \in DOMAIN scenario : "n" \in DOMAIN scenario[t].customData}}

\* A run fills one log at a time, up to ExtraPushes entries past its cap.
MayPush(log, buf, cap) ==
    /\ Exercised \subseteq {log}
    /\ NextItem(buf) <= cap + ExtraPushes

\* The entries the listeners and the console tool have captured in this run.
Entries(sess) ==
    Len(sess.consoleLogs) + Len(sess.errors) + Len(sess.networkRequests)
        + Len(sess.consoleHistory)

RECURSIVE CaptureCount(_)
CaptureCount(xs) ==
    IF xs = {} THEN 0
    ELSE LET x == CHOOSE y \in xs : TRUE
         IN Entries(session[x]) + CaptureCount(xs \ {x})

\* A run captures at most MaxEvents entries.
Room == CaptureCount(DOMAIN session) < MaxEvents

\* What a listener's step leaves alone.
ListenerFrame ==
    /\ response' = NoResponse
    /\ UNCHANGED <<nextSessionId, nextScenarioId, regOrder, registered, driver,
                   testScenarios, scenario, sharedVars, handler, sigint>>

\* An event of the page of session x reaches a listener that
\* setupDebugListeners installed: the page is open, and nothing removes a
\* listener.
Fires(x) ==
    /\ Running
    /\ session[x].listening
    /\ PageAlive(x)

\* A listener that pushes the console message of one page to every session.
OnConsoleWhenMutant(x, room) ==
    /\ Fires(x)
    /\ room
    /\ session' = [y \in DOMAIN session |-> onConsole(session[y])]
    /\ ListenerFrame

OnConsoleWhen(x, room) ==
    /\ Fires(x)
    /\ room
    /\ session' = [session EXCEPT ![x] = onConsole(@)]
    /\ ListenerFrame

OnRequestWhen(x, room) ==
    /\ Fires(x)
    /\ room
    /\ \E url \in UrlArgs : session' = [session EXCEPT ![x] = onRequest(@, url)]
    /\ ListenerFrame

\* The listeners of a run that fills one log past its cap.
OnConsole(x) ==
    OnConsoleWhen(x, MayPush(<<"consoleLogs", x>>, session[x].consoleLogs, ConsoleLogCap))

OnRequest(x) ==
    OnRequestWhen(x, MayPush(<<"networkRequests", x>>, session[x].networkRequests,
                             NetworkCap))

\* The listeners of a run that captures a few entries in any of the logs.
CaptureConsole(x) == OnConsoleWhen(x, Room)

CaptureRequest(x) == OnRequestWhen(x, Room)

OnPageError(x) ==
    /\ Fires(x)
    /\ Room
    /\ session' = [session EXCEPT ![x] = onPageError(@)]
    /\ ListenerFrame

OnResponse(x) ==
    /\ Fires(x)
    /\ \E url \in UrlArgs, status \in StatusArgs :
          session' = [session EXCEPT ![x] = onResponse(@, url, status)]
    /\ ListenerFrame

OnRequestFailed(x) ==
    /\ Fires(x)
    /\ Room
    /\ session' = [session EXCEPT ![x] = onRequestFailed(@)]
    /\ ListenerFrame

\* The 'request' and 'response' events of a run that looks at the network log:
\* requests of two urls, responses of two statuses, with debug mode on or off.
RequestEvent(x) ==
    /\ Fires(x)
    /\ Room
    /\ \E url \in UrlChoices : session' = [session EXCEPT ![x] = onRequest(@, url)]
    /\ ListenerFrame

ResponseEvent(x) ==
    /\ Fires(x)
    /\ \E url \in UrlChoices, status \in StatusChoices :
          session' = [session EXCEPT ![x] = onResponse(@, url, status)]
    /\ ListenerFrame

\* index.js 1666-1698: the console tool: lookup, the push into the command
\* history, then the await of page.evaluate.
ConsoleWhen(h, few) ==
    /\ Running
    /\ FreeSlot(h)
    /\ \E sessionId \in SessionArgs :
          LET hr == [Idle EXCEPT !.tool = "console", !.sessionId = sessionId]
          IN IF sessionId \notin registered
             THEN Step(h, Done(hr, "notFound"))
             ELSE /\ IF few THEN Room
                     ELSE MayPush(<<"consoleHistory", sessionId>>,
                                  session[sessionId].consoleHistory, HistoryCap)
                  /\ Commit(h, [hr EXCEPT !.pc = "evaluate"], registered,
                            [session EXCEPT ![sessionId].consoleHistory =
                                pushCapped(@, [n |-> NextItem(@)], HistoryCap)],
                            testScenarios, scenario)
    /\ UNCHANGED <<nextSessionId, nextScenarioId, regOrder, driver, sharedVars, sigint>>

\* The console tool of a run that fills the history past its cap, and of a run
\* that captures a few entries.
Console(h) == ConsoleWhen(h, FALSE)

ConsoleFew(h) == ConsoleWhen(h, TRUE)

\* index.js 1693-1786: page.evaluate returned or threw; the inner catch turns
\* an exception into an ordinary result, `Console error: ...`, without isError.
ConsoleEvaluate(h) ==
    /\ Running
    /\ handler[h].tool = "console"
    /\ handler[h].pc = "evaluate"
    /\ \E ok \in PageOutcomes(handler[h].sessionId) :
          Step(h, Done(handler[h], IF ok THEN "ok" ELSE "failed"))
    /\ UNCHANGED <<nextSessionId, nextScenarioId, regOrder, driver, sharedVars, sigint>>

\* update_scenario_state by a caller that counts its calls in customData.n.
UpdateScenarioStateCounting(h) ==
    \E scenarioId \in Range(testScenarios) :
       LET n == IF "n" \in DOMAIN scenario[scenarioId].customData
                THEN scenario[scenarioId].customData["n"] + 1 ELSE 1
       IN /\ Exercised \subseteq {<<"events", scenarioId>>}
          /\ n <= EventCap + ExtraPushes
          /\ UpdateScenarioStateCall(h, scenarioId, NoPhase, "n" :> n)

\* ---------------------------------------------------- get_session_state
\* ids a caller can name for a lookup: the ones it was given, or one that never
\* was a session.
LookupArgs == SessionArgs \cup {NoSuch}

\* index.js 1278-1293: lookup, then the await of page.title.
GetSessionState(h) ==
    /\ Running
    /\ FreeSlot(h)
    /\ \E sessionId \in LookupArgs :
          LET hr == [Idle EXCEPT !.tool = "get_session_state", !.sessionId = sessionId]
          IN Step(h, IF sessionId \in registered THEN [hr EXCEPT !.pc = "title"]
                     ELSE Done(hr, "notFound"))
    /\ UNCHANGED <<nextSessionId, nextScenarioId, regOrder, driver, sharedVars, sigint>>

\* index.js 1291-1332: page.title, then context.cookies returned or threw; the
\* inner catch turns an exception into an ordinary result, `Error getting session
\* state: ...`, without isError.
GetSessionStateResume(h) ==
    /\ Running
    /\ handler[h].tool = "get_session_state"
    /\ handler[h].pc \in {"title", "cookies"}
    /\ \E ok \in PageOutcomes(handler[h].sessionId) :
          Step(h, IF ~ok THEN Done(handler[h], "failed")
                  ELSE IF handler[h].pc = "title" THEN [handler[h] EXCEPT !.pc = "cookies"]
                  ELSE Done(handler[h], "ok"))
    /\ UNCHANGED <<nextSessionId, nextScenarioId, regOrder, driver, sharedVars, sigint>>

\* index.js 1335-1384: get_screenshot_history: lookup, then the list as it is.
GetScreenshotHistory(h) ==
    /\ Running
    /\ FreeSlot(h)
    /\ \E sessionId \in LookupArgs :
          LET hr == [Idle EXCEPT !.tool = "get_screenshot_history", !.sessionId = sessionId]
          IN Step(h, IF sessionId \notin registered THEN Done(hr, "notFound")
                     ELSE IF ~session[sessionId].recordScreenshots THEN Done(hr, "ok")
                     ELSE Done([hr EXCEPT !.out = session[sessionId].screenshots], "ok"))
    /\ UNCHANGED <<nextSessionId, nextScenarioId, regOrder, driver, sharedVars, sigint>>

\* index.js 1467-1533: get_debug_info: lookup, then a report of the three logs.
GetDebugInfo(h) ==
    /\ Running
    /\ FreeSlot(h)
    /\ \E sessionId \in LookupArgs :
          LET hr == [Idle EXCEPT !.tool = "get_debug_info", !.sessionId = sessionId]
          IN Step(h, IF sessionId \notin registered THEN Done(hr, "notFound")
                     ELSE Done([hr EXCEPT !.out =
                                   <<session[sessionId].consoleLogs,
                                     session[sessionId].errors,
                                     IF session[sessionId].debugMode
                                     THEN session[sessionId].networkRequests ELSE <<>> >>],
                               "ok"))
    /\ UNCHANGED <<nextSessionId, nextScenarioId, regOrder, driver, sharedVars, sigint>>

\* Array.prototype.slice(start) with no end: a negative start counts from the end.
slice(buf, start) ==
    LET from == IF start < 0
                THEN (IF Len(buf) + start < 0 THEN 0 ELSE Len(buf) + start)
                ELSE (IF start > Len(buf) THEN Len(buf) ELSE start)
    IN SubSeq(buf, from + 1, Len(buf))

\* index.js 1789-1829: console_history: lookup, `args.limit || 20`, the slice.
\* It answers in the same way, without isError, whether or not the slice is
\* empty.
ConsoleHistory(h) ==
    /\ Running
    /\ FreeSlot(h)
    /\ \E sessionId \in LookupArgs, given \in LimitArgs :
          LET hr == [Idle EXCEPT !.tool = "console_history", !.sessionId = sessionId,
                                 !.limit = given]
              limit == IF given = None \/ given[1] = 0 THEN DefaultLimit ELSE given[1]
          IN Step(h, IF sessionId \notin registered THEN Done(hr, "notFound")
                     ELSE Done([hr EXCEPT !.out =
                                   slice(session[sessionId].consoleHistory, -limit)],
                               "ok"))
    /\ UNCHANGED <<nextSessionId, nextScenarioId, regOrder, driver, sharedVars, sigint>>

\* -------------------------------------------------------- list_sessions
\* A list_sessions that ignores its role filter.
NextListedMutant(from, hr, reg, sess) ==
    LET ks == {k \in from..Len(regOrder) :
                  /\ regOrder[k] \in reg
                  /\ hr.scenarioId # Absent => sess[regOrder[k]].scenarioId = hr.scenarioId}
    IN IF ks = {} THEN 0 ELSE CHOOSE k \in ks : \A j \in ks : k <= j

\* index.js 1246-1249: the entries of persistentSessions from position `from` of
\* its entry list that pass the scenarioId filter and the role filter of
\* invocation hr, a filter that is missing or empty passing every session; the
\* first one, or 0.
NextListed(from, hr, reg, sess) ==
    LET ks == {k \in from..Len(regOrder) :
                  /\ regOrder[k] \in reg
                  /\ hr.scenarioId # Absent => sess[regOrder[k]].scenarioId = hr.scenarioId
                  /\ hr.roleFilter # "" => sess[regOrder[k]].role = hr.roleFilter}
    IN IF ks = {} THEN 0 ELSE CHOOSE k \in ks : \A j \in ks : k <= j

\* index.js 1244-1275: the for-of over the live Map up to its next await
\* (page.title of the next session that passes the filter), or to the response.
ListSessionsLoop(h, hr, from) ==
    LET k == NextListed(from, hr, registered, session)
    IN Step(h, IF k # 0 THEN [hr EXCEPT !.pc = "title", !.i = k] ELSE Done(hr, "ok"))

ListSessions(h) ==
    /\ Running
    /\ FreeSlot(h)
    /\ \E scenarioId \in {Absent, NoSuch} \cup ScenarioArgs, role \in RoleFilterArgs :
          ListSessionsLoop(h, [Idle EXCEPT !.tool = "list_sessions",
                                           !.scenarioId = scenarioId,
                                           !.roleFilter = role], 1)
    /\ UNCHANGED <<nextSessionId, nextScenarioId, regOrder, driver, sharedVars, sigint>>

\* index.js 1251-1264: page.title returned or threw; either way the session gets
\* its line, and the loop goes on.
ListSessionsTitle(h) ==
    /\ Running
    /\ handler[h].tool = "list_sessions"
    /\ handler[h].pc = "title"
    /\ \E ok \in PageOutcomes(regOrder[handler[h].i]) :
          ListSessionsLoop(h, [handler[h] EXCEPT !.out = Append(@, regOrder[handler[h].i])],
                           handler[h].i + 1)
    /\ UNCHANGED <<nextSessionId, nextScenarioId, regOrder, driver, sharedVars, sigint>>

\* ------------------------------------------------ captureSessionScreenshot
\* index.js 196-199: the number in the file name, taken before the screenshot
\* is awaited.
ScreenshotNum(x) == Len(session[x].screenshots) + 1

\* How the awaited page.screenshot of session x can end; it succeeds at most
\* `most` times on one session.
ShotOutcomes(x, most) ==
    IF x \in DOMAIN session /\ Len(session[x].screenshots) < most
    THEN PageOutcomes(x) ELSE {FALSE}

\* index.js 206-211: the entry pushed once page.screenshot has returned.
captureSessionScreenshot(sess, num, action) ==
    [sess EXCEPT !.screenshots = Append(@, [filename |-> num, action |-> action])]

\* The session map after the awaited screenshot of handler record hr on session
\* x: the entry is pushed on success, and a failure is caught inside.
Captured(hr, x, action, ok) ==
    IF ok THEN [session EXCEPT ![x] = captureSessionScreenshot(@, hr.screenshotNum, action)]
    ELSE session

\* -------------------------------------------------------- start_session
\* index.js 1157-1168 and getOrCreateSession 358-364: a fresh id, the scenario
\* info, and the first await (chromium.launch).
StartSessionWith(h, roles, labels) ==
    /\ Running
    /\ FreeSlot(h)
    /\ nextSessionId <= MaxSessions
    /\ \E scenarioId \in {Absent, NoSuch} \cup ScenarioArgs, role \in roles,
          label \in labels :
          Step(h, [Idle EXCEPT !.tool = "start_session", !.pc = "launch",
                               !.sessionId = nextSessionId, !.scenarioId = scenarioId,
                               !.role = IF scenarioId = Absent THEN "" ELSE role,
                               !.label = IF scenarioId = Absent THEN "" ELSE label])
    /\ nextSessionId' = nextSessionId + 1
    /\ UNCHANGED <<nextScenarioId, regOrder, driver, sharedVars, sigint>>

\* start_session by a caller that leaves role and label to their defaults, and
\* by one that may name them.
StartSession(h) == StartSessionWith(h, RoleArgs, LabelArgs)

StartSessionNamed(h) == StartSessionWith(h, RoleChoices, LabelChoices)

\* index.js 187-189, 1158-1168 and getOrCreateSession 358-361: generateSessionId is
\* Date.now() and nine base-36 digits of Math.random(), and here it returns the id
\* of a registered session: getOrCreateSession finds the key and returns that
\* session, with no launch and no use of the scenario info.  (A repeat of an id
\* that is no longer a key goes the way of a fresh id.)
StartSessionRepeatedId(h) ==
    /\ Running
    /\ FreeSlot(h)
    /\ \E sessionId \in registered, scenarioId \in {Absent, NoSuch} \cup ScenarioArgs :
          Step(h, [Idle EXCEPT !.tool = "start_session", !.pc = "created",
                               !.sessionId = sessionId, !.scenarioId = scenarioId])
    /\ UNCHANGED <<nextSessionId, nextScenarioId, regOrder, driver, sharedVars, sigint>>

\* index.js 187-189, 1158-1168 and getOrCreateSession 358-364: generateSessionId
\* returns the id of a session that was registered and has been deleted since:
\* the key is not found, and the call goes the way of a fresh id.
StartSessionReusedId(h) ==
    /\ Running
    /\ FreeSlot(h)
    /\ Len(regOrder) < MaxSessions + MaxReuses
    /\ \E sessionId \in Range(regOrder) \ (registered \cup {NoSuch}),
          scenarioId \in {Absent, NoSuch} \cup ScenarioArgs :
          Step(h, [Idle EXCEPT !.tool = "start_session", !.pc = "launch",
                               !.sessionId = sessionId, !.scenarioId = scenarioId])
    /\ UNCHANGED <<nextSessionId, nextScenarioId, regOrder, driver, sharedVars, sigint>>

\* persistentSessions.set 403: a new key goes to the end of the Map's order; the
\* place a deleted entry of the same key had stays empty.
Inserted(order, x) ==
    Append([k \in DOMAIN order |-> IF order[k] = x THEN NoSuch ELSE order[k]], x)

\* A getOrCreateSession without the `testScenarios.has` test: a session naming a
\* scenario that does not exist joins the scenarios that do.
getOrCreateSessionMutant(sessionId, scenarioInfo, sessions, scenarios, present) ==
    LET link == scenarioInfo.scenarioId # Absent
        obj == [scenarioId |-> scenarioInfo.scenarioId,
                role |-> IF link THEN scenarioInfo.role ELSE "",
                label |-> IF link THEN scenarioInfo.label ELSE "",
                recordScreenshots |-> FALSE, screenshots |-> <<>>,
                consoleLogs |-> <<>>, errors |-> <<>>, networkRequests |-> <<>>,
                debugMode |-> FALSE, consoleHistory |-> <<>>, listening |-> FALSE]
    IN [session |-> (sessionId :> obj) @@ sessions,
        scenario |-> IF link
                     THEN [s \in DOMAIN scenarios |->
                              IF s \in present
                              THEN addSession(scenarios[s], sessionId, scenarioInfo.role,
                                              scenarioInfo.label)
                              ELSE scenarios[s]]
                     ELSE scenarios]

\* getOrCreateSession 377-405: the session object, its registration and, when the
\* named scenario exists, its membership.
getOrCreateSession(sessionId, scenarioInfo, sessions, scenarios, present) ==
    LET link == scenarioInfo.scenarioId # Absent
        obj == [scenarioId |-> scenarioInfo.scenarioId,
                role |-> IF link THEN scenarioInfo.role ELSE "",
                label |-> IF link THEN scenarioInfo.label ELSE "",
                recordScreenshots |-> FALSE, screenshots |-> <<>>,
                consoleLogs |-> <<>>, errors |-> <<>>, networkRequests |-> <<>>,
                debugMode |-> FALSE, consoleHistory |-> <<>>, listening |-> FALSE]
    IN [session |-> (sessionId :> obj) @@ sessions,
        scenario |-> IF link /\ scenarioInfo.scenarioId \in present
                     THEN [scenarios EXCEPT ![scenarioInfo.scenarioId] =
                              addSession(@, sessionId, scenarioInfo.role, scenarioInfo.label)]
                     ELSE scenarios]

\* index.js 1162-1166: role and label default before they reach the scenario.
scenarioInfoOf(hr) ==
    [scenarioId |-> hr.scenarioId,
     role |-> IF hr.role = "" THEN "participant" ELSE hr.role,
     label |-> IF hr.label = "" THEN ToString(hr.sessionId) ELSE hr.label]

\* getOrCreateSession 364-405: chromium.launch, browser.newContext and
\* context.newPage returned, or one of them threw; then the session is
\* registered.  The three awaits touch nothing but the handler's own locals, so
\* they are one suspension point here.
GetOrCreateSessionNewPage(h) ==
    /\ Running
    /\ handler[h].tool = "start_session"
    /\ handler[h].pc = "launch"
    /\ \E ok \in BOOLEAN :
          IF ~ok
          THEN /\ Step(h, Done(handler[h], "error"))
               /\ UNCHANGED <<regOrder, driver>>
          ELSE LET x == handler[h].sessionId
                   made == getOrCreateSession(x, scenarioInfoOf(handler[h]), session,
                                              scenario, Range(testScenarios))
               IN /\ regOrder' = Inserted(regOrder, x)
                  /\ driver' = (x :> [browser |-> "open", context |-> "open",
                                      closeCalled |-> FALSE]) @@ driver
                  /\ Commit(h, [handler[h] EXCEPT !.pc = "created"],
                            registered \cup {x}, made.session, testScenarios, made.scenario)
    /\ UNCHANGED <<nextSessionId, nextScenarioId, sharedVars, sigint>>

\* index.js 1168-1185: back in the handler after `await getOrCreateSession`: the
\* flags, then mkdir when recording, else goto when a url is given.
StartSessionCreatedWith(h, debugs) ==
    /\ Running
    /\ handler[h].tool = "start_session"
    /\ handler[h].pc = "created"
    /\ \E recordScreenshots \in RecordArgs, debugMode \in debugs, url \in BOOLEAN :
          Commit(h,
                 IF recordScreenshots THEN [handler[h] EXCEPT !.pc = "mkdir"]
                 ELSE IF url THEN [handler[h] EXCEPT !.pc = "goto"]
                 ELSE Done(handler[h], "ok"),
                 registered,
                 [session EXCEPT ![handler[h].sessionId].recordScreenshots = recordScreenshots,
                                 ![handler[h].sessionId].debugMode = debugMode,
                                 ![handler[h].sessionId].listening = TRUE],
                 testScenarios, scenario)
    /\ UNCHANGED <<nextSessionId, nextScenarioId, regOrder, driver, sharedVars, sigint>>

\* start_session by a caller that turns debug mode on, and by one that may
\* leave it off.
StartSessionCreated(h) == StartSessionCreatedWith(h, DebugArgs)

StartSessionCreatedEither(h) == StartSessionCreatedWith(h, BOOLEAN)

\* index.js 1180-1185: fs.mkdir returned.
StartSessionMkdir(h) ==
    /\ Running
    /\ handler[h].tool = "start_session"
    /\ handler[h].pc = "mkdir"
    /\ \E ok \in BOOLEAN, url \in BOOLEAN :
          Step(h, IF ~ok THEN Done(handler[h], "error")
                  ELSE IF url THEN [handler[h] EXCEPT !.pc = "goto"]
                  ELSE Done(handler[h], "ok"))
    /\ UNCHANGED <<nextSessionId, nextScenarioId, regOrder, driver, sharedVars, sigint>>

\* index.js 1185-1190: page.goto returned; the initial screenshot when recording.
StartSessionGoto(h) ==
    /\ Running
    /\ handler[h].tool = "start_session"
    /\ handler[h].pc = "goto"
    /\ \E ok \in PageOutcomes(handler[h].sessionId) :
          Step(h, IF ~ok THEN Done(handler[h], "error")
                  ELSE IF session[handler[h].sessionId].recordScreenshots
                       THEN [handler[h] EXCEPT !.pc = "shot",
                                               !.screenshotNum =
                                                   ScreenshotNum(handler[h].sessionId)]
                  ELSE Done(handler[h], "ok"))
    /\ UNCHANGED <<nextSessionId, nextScenarioId, regOrder, driver, sharedVars, sigint>>

\* captureSessionScreenshot 192-218: page.screenshot returned; a failure is
\* caught inside and the handler returns normally.
StartSessionShotUpTo(h, most) ==
    /\ Running
    /\ handler[h].tool = "start_session"
    /\ handler[h].pc = "shot"
    /\ \E ok \in ShotOutcomes(handler[h].sessionId, most) :
          Commit(h, Done(handler[h], "ok"), registered,
                 Captured(handler[h], handler[h].sessionId, "initial", ok),
                 testScenarios, scenario)
    /\ UNCHANGED <<nextSessionId, nextScenarioId, regOrder, driver, sharedVars, sigint>>

\* start_session whose screenshot fails, and one whose screenshot may be taken.
StartSessionShot(h) == StartSessionShotUpTo(h, 0)

StartSessionRecording(h) == StartSessionShotUpTo(h, MaxShots)

\* ---------------------------------------------------------- end_session
\* index.js 1211-1230: lookup, removal from the scenario's membership, then the
\* first await (context.close).
EndSession(h) ==
    /\ Running
    /\ FreeSlot(h)
    /\ \E sessionId \in SessionArgs :
          LET hr == [Idle EXCEPT !.tool = "end_session", !.sessionId = sessionId]
          IN IF sessionId \notin registered
             THEN /\ Step(h, Done(hr, "notFound"))
                  /\ UNCHANGED driver
             ELSE /\ Commit(h, [hr EXCEPT !.pc = "ctxClose"], registered, session,
                            testScenarios,
                            IF session[sessionId].scenarioId # Absent
                               /\ session[sessionId].scenarioId \in Range(testScenarios)
                            THEN [scenario EXCEPT ![session[sessionId].scenarioId] =
                                     removeSession(@, sessionId)]
                            ELSE scenario)
                  /\ driver' = CallContextClose(driver, sessionId)
    /\ UNCHANGED <<nextSessionId, nextScenarioId, regOrder, sharedVars, sigint>>

\* index.js 1230-1231: context.close returned; browser.close is awaited next.
EndSessionContextClose(h) ==
    /\ Running
    /\ handler[h].tool = "end_session"
    /\ handler[h].pc = "ctxClose"
    /\ \E ok \in CloseOutcomes :
          IF ok
          THEN /\ driver' = ContextClosed(driver, handler[h].sessionId)
               /\ Step(h, [handler[h] EXCEPT !.pc = "brClose"])
          ELSE /\ Step(h, Done(handler[h], "error"))
               /\ UNCHANGED driver
    /\ UNCHANGED <<nextSessionId, nextScenarioId, regOrder, sharedVars, sigint>>

\* index.js 1231-1241: browser.close returned; the session leaves the registry.
EndSessionBrowserClose(h) ==
    /\ Running
    /\ handler[h].tool = "end_session"
    /\ handler[h].pc = "brClose"
    /\ \E ok \in CloseOutcomes :
          IF ok
          THEN /\ driver' = BrowserClosed(driver, handler[h].sessionId)
               /\ Commit(h, Done(handler[h], "ok"), registered \ {handler[h].sessionId},
                         session, testScenarios, scenario)
          ELSE /\ Step(h, Done(handler[h], "error"))
               /\ UNCHANGED driver
    /\ UNCHANGED <<nextSessionId, nextScenarioId, regOrder, sharedVars, sigint>>

\* ----------------------------------------------------- end_test_scenario
\* A loop that stops at the first member instead of going through the snapshot.
NextPresentMutant(ids, from, reg) ==
    LET ks == {k \in from..Len(ids) : ids[k] \in reg /\ k = 1}
    IN IF ks = {} THEN 0 ELSE CHOOSE k \in ks : \A j \in ks : k <= j

\* The first position k >= from of ids whose session is in reg; 0 when there is none.
NextPresent(ids, from, reg) ==
    LET ks == {k \in from..Len(ids) : ids[k] \in reg}
    IN IF ks = {} THEN 0 ELSE CHOOSE k \in ks : \A j \in ks : k <= j

\* index.js 2151-2174: the loop over the snapshot from position `from` up to its
\* next await, or past its end: the phase update, the removal and the response.
\* `phases` is the phase of the handler's scenario object before and after its
\* updateState.
EndTestScenarioLoop(h, hr, from, reg, d) ==
    LET k == NextPresent(hr.sessionIds, from, reg)
        ended == updateState(scenario[hr.scenarioId],
                             [phase |-> "completed", customData |-> <<>>])
    IN IF k # 0
       THEN /\ driver' = CallContextClose(d, hr.sessionIds[k])
            /\ Commit(h, [hr EXCEPT !.pc = "ctxClose", !.i = k], reg, session,
                      testScenarios, scenario)
       ELSE /\ driver' = d
            /\ Commit(h, Done([hr EXCEPT !.phases =
                                  <<scenario[hr.scenarioId].phase, ended.phase>>], "ok"),
                      reg, session,
                      Without(testScenarios, hr.scenarioId),
                      [scenario EXCEPT ![hr.scenarioId] = ended])

\* index.js 2134-2154: lookup, the snapshot of the membership, the loop's start.
EndTestScenario(h) ==
    /\ Running
    /\ FreeSlot(h)
    /\ \E scenarioId \in ScenarioArgs :
          LET hr == [Idle EXCEPT !.tool = "end_test_scenario", !.scenarioId = scenarioId]
          IN IF scenarioId \notin Range(testScenarios)
             THEN /\ Step(h, Done(hr, "notFound"))
                  /\ UNCHANGED driver
             ELSE LET sessionIds == memberIds(scenario[scenarioId])
                  IN EndTestScenarioLoop(h,
                        [hr EXCEPT !.sessionIds = sessionIds,
                                   !.membersPresent = Range(sessionIds) \subseteq registered],
                        1, registered, driver)
    /\ UNCHANGED <<nextSessionId, nextScenarioId, regOrder, sharedVars, sigint>>

\* index.js 2154-2155: context.close of the current member returned.
EndTestScenarioContextClose(h) ==
    /\ Running
    /\ handler[h].tool = "end_test_scenario"
    /\ handler[h].pc = "ctxClose"
    /\ \E ok \in CloseOutcomes :
          IF ok
          THEN /\ driver' = ContextClosed(driver, handler[h].sessionIds[handler[h].i])
               /\ Step(h, [handler[h] EXCEPT !.pc = "brClose"])
          ELSE /\ Step(h, Done(handler[h], "error"))
               /\ UNCHANGED driver
    /\ UNCHANGED <<nextSessionId, nextScenarioId, regOrder, sharedVars, sigint>>

\* index.js 2155-2158 and on: browser.close of the current member returned; the
\* member leaves the registry, is counted, and the loop goes on.
EndTestScenarioBrowserClose(h) ==
    /\ Running
    /\ handler[h].tool = "end_test_scenario"
    /\ handler[h].pc = "brClose"
    /\ \E ok \in CloseOutcomes :
          IF ok
          THEN LET x == handler[h].sessionIds[handler[h].i]
               IN EndTestScenarioLoop(h, [handler[h] EXCEPT !.closedCount = @ + 1],
                                      handler[h].i + 1, registered \ {x},
                                      BrowserClosed(driver, x))
          ELSE /\ Step(h, Done(handler[h], "error"))
               /\ UNCHANGED driver
    /\ UNCHANGED <<nextSessionId, nextScenarioId, regOrder, sharedVars, sigint>>

\* ----------------------------------------------------- navigate_and_wait
SharedBrowser(headless) == IF headless THEN headlessBrowser ELSE headedBrowser

\* How an awaited operation on a one-shot context of the shared browser can end.
TempOutcomes(headless) ==
    IF SharedBrowser(headless) = "open" THEN {TRUE, FALSE} ELSE {FALSE}

\* How the awaited operation on the handler's page can end.
HandlerOutcomes(hr) ==
    IF hr.persistent THEN PageOutcomes(hr.sessionId) ELSE TempOutcomes(hr.headless)

\* The navigate_and_wait invocations on session x that are in flight: the ones
\* submitted before a call that starts now.
Earlier(x) ==
    {g \in Handlers : /\ handler[g].tool = "navigate_and_wait"
                      /\ handler[g].persistent
                      /\ handler[g].sessionId = x}

\* index.js 2177-2198 and 2449-2452: the session is resolved, or else a one-shot
\* context is made on the shared browser (getBrowser 163-184).
NavigateAndWait(h) ==
    /\ Running
    /\ FreeSlot(h)
    /\ \E sessionId \in {Absent} \cup SessionArgs, headless \in HeadlessArgs :
          LET hr == [Idle EXCEPT !.tool = "navigate_and_wait", !.sessionId = sessionId]
          IN Step(h,
                 IF sessionId # Absent /\ sessionId \in registered
                 THEN [hr EXCEPT !.persistent = TRUE, !.pc = "goto",
                                 !.after = Earlier(sessionId)]
                 ELSE [hr EXCEPT !.headless = headless,
                                 !.pc = IF SharedBrowser(headless) = "null"
                                        THEN "tmpLaunch" ELSE "tmpBrowser"])
    /\ UNCHANGED <<nextSessionId, nextScenarioId, regOrder, driver, sharedVars, sigint>>

\* getBrowser 166-172 / 174-182: chromium.launch returned and the shared variable
\* is assigned; or the existing browser is returned.  browser.newContext is next.
NavigateGetBrowser(h) ==
    /\ Running
    /\ handler[h].tool = "navigate_and_wait"
    /\ handler[h].pc \in {"tmpLaunch", "tmpBrowser"}
    /\ \E ok \in BOOLEAN :
          IF handler[h].pc = "tmpLaunch" /\ ~ok
          THEN /\ Step(h, Done(handler[h], "error"))
               /\ UNCHANGED sharedVars
          ELSE /\ Step(h, [handler[h] EXCEPT !.pc = "tmpContext"])
               /\ IF handler[h].pc = "tmpLaunch"
                  THEN /\ headlessBrowser' =
                            IF handler[h].headless THEN "open" ELSE headlessBrowser
                       /\ headedBrowser' =
                            IF handler[h].headless THEN headedBrowser ELSE "open"
                  ELSE UNCHANGED sharedVars
    /\ UNCHANGED <<nextSessionId, nextScenarioId, regOrder, driver, sigint>>

\* index.js 2193-2197 and 2452: newContext, then newPage returned; after newPage
\* page.goto is awaited.
NavigateTempPage(h) ==
    /\ Running
    /\ handler[h].tool = "navigate_and_wait"
    /\ handler[h].pc \in {"tmpContext", "tmpPage"}
    /\ \E ok \in TempOutcomes(handler[h].headless) :
          Step(h,
              IF ~ok THEN Done(handler[h], "error")
              ELSE IF handler[h].pc = "tmpContext" THEN [handler[h] EXCEPT !.pc = "tmpPage"]
              ELSE [handler[h] EXCEPT !.pc = "goto"])
    /\ UNCHANGED <<nextSessionId, nextScenarioId, regOrder, driver, sharedVars, sigint>>

\* index.js 2452-2460: page.goto returned; the wait for a selector or a load
\* state is awaited next, unless waitFor is 'selector' without a waitSelector.
NavigateGoto(h) ==
    /\ Running
    /\ handler[h].tool = "navigate_and_wait"
    /\ handler[h].pc = "goto"
    /\ \E ok \in HandlerOutcomes(handler[h]), wait \in BOOLEAN :
          Step(h,
              IF ~ok THEN Done(handler[h], "error")
              ELSE IF wait THEN [handler[h] EXCEPT !.pc = "wait"]
              ELSE [handler[h] EXCEPT !.pc = "title"])
    /\ UNCHANGED <<nextSessionId, nextScenarioId, regOrder, driver, sharedVars, sigint>>

\* index.js 2455-2460: the wait returned; page.title is awaited next.
NavigateWait(h) ==
    /\ Running
    /\ handler[h].tool = "navigate_and_wait"
    /\ handler[h].pc = "wait"
    /\ \E ok \in HandlerOutcomes(handler[h]) :
          Step(h,
              IF ~ok THEN Done(handler[h], "error") ELSE [handler[h] EXCEPT !.pc = "title"])
    /\ UNCHANGED <<nextSessionId, nextScenarioId, regOrder, driver, sharedVars, sigint>>

\* A navigate_and_wait that closes the context whoever owns it.
NavigateFinishMutant(hr) == [hr EXCEPT !.pc = "tmpClose"]

\* index.js 2471-2480: after the screenshot step: a one-shot context is closed,
\* a session's is kept.
NavigateFinish(hr) ==
    IF hr.persistent THEN Done(hr, "ok") ELSE [hr EXCEPT !.pc = "tmpClose"]

\* index.js 2460-2471: page.title returned; the session is looked up again and,
\* when it records, its screenshot is awaited.
NavigateTitle(h) ==
    /\ Running
    /\ handler[h].tool = "navigate_and_wait"
    /\ handler[h].pc = "title"
    /\ \E ok \in HandlerOutcomes(handler[h]) :
          Step(h,
              IF ~ok THEN Done(handler[h], "error")
              ELSE IF /\ handler[h].sessionId # Absent
                      /\ handler[h].sessionId \in registered
                      /\ session[handler[h].sessionId].recordScreenshots
                   THEN [handler[h] EXCEPT !.pc = "shot",
                                           !.screenshotNum =
                                               ScreenshotNum(handler[h].sessionId)]
              ELSE NavigateFinish(handler[h]))
    /\ UNCHANGED <<nextSessionId, nextScenarioId, regOrder, driver, sharedVars, sigint>>

\* captureSessionScreenshot 192-218: page.screenshot of the session returned; a
\* failure is caught inside.
NavigateShotUpTo(h, most) ==
    /\ Running
    /\ handler[h].tool = "navigate_and_wait"
    /\ handler[h].pc = "shot"
    /\ \E ok \in ShotOutcomes(handler[h].sessionId, most) :
          Commit(h, NavigateFinish(handler[h]), registered,
                 Captured(handler[h], handler[h].sessionId, "navigate", ok),
                 testScenarios, scenario)
    /\ UNCHANGED <<nextSessionId, nextScenarioId, regOrder, driver, sharedVars, sigint>>

\* navigate_and_wait whose screenshot fails, and one whose screenshot may be taken.
NavigateShot(h) == NavigateShotUpTo(h, 0)

NavigateRecording(h) == NavigateShotUpTo(h, MaxShots)

\* index.js 2471: `context.close()` returned: the context the handler resolved
\* at 2181-2197, which is a session's own context when the handler runs on one.
NavigateTempClose(h) ==
    /\ Running
    /\ handler[h].tool = "navigate_and_wait"
    /\ handler[h].pc = "tmpClose"
    /\ \E ok \in CloseOutcomes :
          /\ Step(h, Done(handler[h], IF ok THEN "ok" ELSE "error"))
          /\ driver' = IF ok /\ handler[h].persistent
                        THEN ContextClosed(driver, handler[h].sessionId) ELSE driver
    /\ UNCHANGED <<nextSessionId, nextScenarioId, regOrder, sharedVars, sigint>>

\* ------------------------------------------------- tools/list and dispatch
\* index.js 409-1150: the names the ListToolsRequestSchema handler returns.
AdvertisedTools ==
    {"screenshot", "test_login", "fill_form", "check_element", "navigate_and_wait",
     "click_and_wait", "extract_text", "run_accessibility_check", "generate_pdf",
     "monitor_network", "start_session", "end_session", "list_sessions",
     "create_test_scenario", "list_test_scenarios", "end_test_scenario",
     "get_test_scenario", "update_scenario_state", "get_screenshot_history",
     "get_session_state", "get_page_context", "get_debug_info", "get_dom_snapshot",
     "execute_script", "console", "console_history", "inspect_object", "set_breakpoint"}

\* index.js 1157-2174: the names the `if (name === ...)` chain of tools/call
\* handles before a page is resolved.
RegistryTools ==
    {"start_session", "end_session", "list_sessions", "get_session_state",
     "get_screenshot_history", "get_page_context", "get_debug_info", "get_dom_snapshot",
     "execute_script", "console", "console_history", "inspect_object", "set_breakpoint",
     "create_test_scenario", "list_test_scenarios", "get_test_scenario",
     "update_scenario_state", "end_test_scenario"}

\* index.js 2200-2699: the cases of `switch (name)`.
PageTools ==
    {"screenshot", "test_login", "fill_form", "check_element", "navigate_and_wait",
     "click_and_wait", "extract_text", "run_accessibility_check", "generate_pdf",
     "monitor_network"}

\* A dispatch whose switch has no case for run_accessibility_check.
BranchMutant(name) ==
    IF name \in RegistryTools THEN "if"
    ELSE IF name \in PageTools \ {"run_accessibility_check"} THEN "case"
    ELSE "default"

\* Where tools/call takes a name: to an `if` of the chain, to a case of the
\* switch, or to the switch's default, which throws 'Unknown tool'.
Branch(name) ==
    IF name \in RegistryTools THEN "if"
    ELSE IF name \in PageTools THEN "case"
    ELSE "default"

\* A name no tool has.
UnknownArgs == {"no_such_tool"}

\* The names that reach the session resolution and the switch, but for
\* navigate_and_wait, which has its own actions.
ToolArgs == (PageTools \ {"navigate_and_wait"}) \cup UnknownArgs

\* index.js 409-1150: tools/list returns its literal list.
ListTools(h) ==
    /\ Running
    /\ FreeSlot(h)
    /\ Step(h, Done([Idle EXCEPT !.tool = "tools/list", !.out = <<AdvertisedTools>>], "ok"))
    /\ UNCHANGED <<nextSessionId, nextScenarioId, regOrder, driver, sharedVars, sigint>>

\* index.js 2177-2198: tools/call with a name the chain does not handle: the
\* session is resolved, or else a one-shot context is made on the shared
\* browser; the switch comes after that.
CallTool(h) ==
    /\ Running
    /\ FreeSlot(h)
    /\ \E name \in ToolArgs, sessionId \in {Absent} \cup SessionArgs,
          headless \in HeadlessArgs :
          LET hr == [Idle EXCEPT !.tool = name, !.sessionId = sessionId]
          IN Step(h,
                 IF sessionId # Absent /\ sessionId \in registered
                 THEN (IF Branch(name) = "default"
                       THEN Done([hr EXCEPT !.persistent = TRUE], "error")
                       ELSE [hr EXCEPT !.persistent = TRUE, !.pc = "work"])
                 ELSE [hr EXCEPT !.headless = headless,
                                 !.pc = IF SharedBrowser(headless) = "null"
                                        THEN "tmpLaunch" ELSE "tmpBrowser"])
    /\ UNCHANGED <<nextSessionId, nextScenarioId, regOrder, driver, sharedVars, sigint>>

\* getBrowser 166-172 / 174-182 for these names: chromium.launch returned and
\* the shared variable is assigned; or the existing browser is returned.
ToolGetBrowser(h) ==
    /\ Running
    /\ handler[h].tool \in ToolArgs
    /\ handler[h].pc \in {"tmpLaunch", "tmpBrowser"}
    /\ \E ok \in BOOLEAN :
          IF handler[h].pc = "tmpLaunch" /\ ~ok
          THEN /\ Step(h, Done(handler[h], "error"))
               /\ UNCHANGED sharedVars
          ELSE /\ Step(h, [handler[h] EXCEPT !.pc = "tmpContext"])
               /\ IF handler[h].pc = "tmpLaunch"
                  THEN /\ headlessBrowser' =
                            IF handler[h].headless THEN "open" ELSE headlessBrowser
                       /\ headedBrowser' =
                            IF handler[h].headless THEN headedBrowser ELSE "open"
                  ELSE UNCHANGED sharedVars
    /\ UNCHANGED <<nextSessionId, nextScenarioId, regOrder, driver, sigint>>

\* index.js 2193-2200 and 2700-2701: newContext, then newPage returned; then the
\* switch: a case starts its work on the page, the default throws.
ToolTempPage(h) ==
    /\ Running
    /\ handler[h].tool \in ToolArgs
    /\ handler[h].pc \in {"tmpContext", "tmpPage"}
    /\ \E ok \in TempOutcomes(handler[h].headless) :
          Step(h,
              IF ~ok THEN Done(handler[h], "error")
              ELSE IF handler[h].pc = "tmpContext" THEN [handler[h] EXCEPT !.pc = "tmpPage"]
              ELSE IF Branch(handler[h].tool) = "default" THEN Done(handler[h], "error")
              ELSE [handler[h] EXCEPT !.pc = "work"])
    /\ UNCHANGED <<nextSessionId, nextScenarioId, regOrder, driver, sharedVars, sigint>>

\* index.js 2201-2688: the awaited page operations of a case returned, or one of
\* them threw; `if (shouldCloseContext) await context.close()` comes last.
ToolWork(h) ==
    /\ Running
    /\ handler[h].tool \in ToolArgs
    /\ handler[h].pc = "work"
    /\ \E ok \in HandlerOutcomes(handler[h]) :
          Step(h,
              IF ~ok THEN Done(handler[h], "error")
              ELSE IF handler[h].persistent THEN Done(handler[h], "ok")
              ELSE [handler[h] EXCEPT !.pc = "tmpClose"])
    /\ UNCHANGED <<nextSessionId, nextScenarioId, regOrder, driver, sharedVars, sigint>>

\* index.js 2224 and the like: `context.close()` of the one-shot context returned.
ToolTempClose(h) ==
    /\ Running
    /\ handler[h].tool \in ToolArgs
    /\ handler[h].pc = "tmpClose"
    /\ \E ok \in CloseOutcomes : Step(h, Done(handler[h], IF ok THEN "ok" ELSE "error"))
    /\ UNCHANGED <<nextSessionId, nextScenarioId, regOrder, driver, sharedVars, sigint>>

\* ---------------------------------------------------------------- SIGINT
\* index.js 2735: process.exit(0).  The process is gone, and with it its
\* registries, its in-flight handlers and the browsers it launched.
ProcessExit ==
    /\ sigint' = [pc |-> "exited", pos |-> 0]
    /\ nextSessionId' = 1
    /\ nextScenarioId' = 1
    /\ regOrder' = <<>>
    /\ registered' = {}
    /\ session' = <<>>
    /\ driver' = <<>>
    /\ testScenarios' = <<>>
    /\ scenario' = <<>>
    /\ headlessBrowser' = "null"
    /\ headedBrowser' = "null"
    /\ handler' = [h \in Handlers |-> Idle]
    /\ response' = NoResponse

\* What a step of the SIGINT handler before process.exit leaves alone.
SigintFrame ==
    /\ UNCHANGED <<nextSessionId, nextScenarioId, regOrder, testScenarios, scenario,
                   handler>>
    /\ response' = NoResponse

\* A sweep that gives up after the first session: clear(), then the shared
\* browsers, then process.exit.
SigintLoopMutant(from, reg, d) ==
    IF from = 1 /\ \E k \in 1..Len(regOrder) : regOrder[k] \in reg
    THEN LET k == CHOOSE k \in 1..Len(regOrder) :
                     /\ regOrder[k] \in reg
                     /\ \A j \in 1..(k - 1) : regOrder[j] \notin reg
         IN /\ driver' = CallContextClose(d, regOrder[k])
            /\ sigint' = [pc |-> "ctxClose", pos |-> k]
            /\ registered' = reg
            /\ session' = CollectSessions(session, reg, handler)
            /\ UNCHANGED sharedVars
            /\ SigintFrame
    ELSE IF headlessBrowser # "null" \/ headedBrowser # "null"
    THEN /\ driver' = d
         /\ registered' = {}
         /\ session' = CollectSessions(session, {}, handler)
         /\ sigint' = [pc |-> IF headlessBrowser # "null" THEN "closeHeadless"
                               ELSE "closeHeaded",
                        pos |-> 0]
         /\ UNCHANGED sharedVars
         /\ SigintFrame
    ELSE ProcessExit

\* index.js 2719-2735: the for-of over the live Map from position `from` of its
\* entry list up to the next await, or past its end: clear(), then the shared
\* browsers, then process.exit.
SigintLoop(from, reg, d) ==
    LET ks == {k \in from..Len(regOrder) : regOrder[k] \in reg}
    IN IF ks # {}
       THEN LET k == CHOOSE k \in ks : \A j \in ks : k <= j
            IN /\ driver' = CallContextClose(d, regOrder[k])
               /\ sigint' = [pc |-> "ctxClose", pos |-> k]
               /\ registered' = reg
               /\ session' = CollectSessions(session, reg, handler)
               /\ UNCHANGED sharedVars
               /\ SigintFrame
       ELSE IF headlessBrowser # "null" \/ headedBrowser # "null"
       THEN /\ driver' = d
            /\ registered' = {}
            /\ session' = CollectSessions(session, {}, handler)
            /\ sigint' = [pc |-> IF headlessBrowser # "null" THEN "closeHeadless"
                                  ELSE "closeHeaded",
                           pos |-> 0]
            /\ UNCHANGED sharedVars
            /\ SigintFrame
       ELSE ProcessExit

Sigint ==
    /\ sigint.pc = "idle"
    /\ SigintLoop(1, registered, driver)

\* index.js 2721-2725: context.close returned; a failure is caught and the sweep
\* goes on with the next session.
SigintContextClose ==
    /\ sigint.pc = "ctxClose"
    /\ \E ok \in CloseOutcomes :
          IF ok
          THEN /\ driver' = ContextClosed(driver, regOrder[sigint.pos])
               /\ sigint' = [sigint EXCEPT !.pc = "brClose"]
               /\ UNCHANGED <<registered, session, sharedVars>>
               /\ SigintFrame
          ELSE SigintLoop(sigint.pos + 1, registered, driver)

\* index.js 2722-2727: browser.close returned.
SigintBrowserClose ==
    /\ sigint.pc = "brClose"
    /\ \E ok \in CloseOutcomes :
          SigintLoop(sigint.pos + 1, registered,
                     IF ok THEN BrowserClosed(driver, regOrder[sigint.pos]) ELSE driver)

\* index.js 2729-2735: a shared browser's close returned; an exception here is an
\* unhandled rejection, which ends the process as process.exit does.
SigintCloseShared ==
    /\ sigint.pc \in {"closeHeadless", "closeHeaded"}
    /\ \E ok \in CloseOutcomes :
          IF ok /\ sigint.pc = "closeHeadless" /\ headedBrowser # "null"
          THEN /\ headlessBrowser' = "closed"
               /\ sigint' = [sigint EXCEPT !.pc = "closeHeaded"]
               /\ UNCHANGED <<headedBrowser, registered, session, driver>>
               /\ SigintFrame
          ELSE ProcessExit

\* ------------------------------------------------------------ specification
\* The steps that start an invocation and the steps that resume one.
StartSessionResume(h) ==
    \/ GetOrCreateSessionNewPage(h)
    \/ StartSessionCreated(h)
    \/ StartSessionMkdir(h)
    \/ StartSessionGoto(h)
    \/ StartSessionShot(h)

EndSessionResume(h) ==
    \/ EndSessionContextClose(h)
    \/ EndSessionBrowserClose(h)

EndTestScenarioResume(h) ==
    \/ EndTestScenarioContextClose(h)
    \/ EndTestScenarioBrowserClose(h)

NavigateResume(h) ==
    \/ NavigateGetBrowser(h)
    \/ NavigateTempPage(h)
    \/ NavigateGoto(h)
    \/ NavigateWait(h)
    \/ NavigateTitle(h)
    \/ NavigateShot(h)
    \/ NavigateTempClose(h)

ToolResume(h) ==
    \/ ToolGetBrowser(h)
    \/ ToolTempPage(h)
    \/ ToolWork(h)
    \/ ToolTempClose(h)

\* Session and scenario lifecycle under concurrent invocations and SIGINT.
Next ==
    \/ \E h \in Handlers :
          \/ CreateTestScenario(h)
          \/ StartSession(h)
          \/ StartSessionResume(h)
          \/ EndSession(h)
          \/ EndSessionResume(h)
          \/ EndTestScenario(h)
          \/ EndTestScenarioResume(h)
    \/ Sigint
    \/ SigintContextClose
    \/ SigintBrowserClose

Spec == Init /\ [][Next]_vars

\* Page operations under concurrent invocations: navigate_and_wait against
\* sessions that are started and ended meanwhile.
NextPage ==
    \E h \in Handlers :
        \/ StartSession(h)
        \/ StartSessionResume(h)
        \/ EndSession(h)
        \/ EndSessionResume(h)
        \/ NavigateAndWait(h)
        \/ NavigateResume(h)

SpecPage == Init /\ [][NextPage]_vars

\* A caller that waits for each response before its next request, and a SIGINT
\* that arrives between two requests: every tool, no interleaving.
Quiet == sigint.pc = "idle" /\ \A h \in Handlers : handler[h].pc = "idle"

NextSeq ==
    \/ /\ Quiet
       /\ \E h \in Handlers :
             \/ CreateTestScenario(h)
             \/ GetTestScenario(h)
             \/ ListSessions(h)
             \/ StartSessionNamed(h)
             \/ EndSession(h)
             \/ EndTestScenario(h)
             \/ NavigateAndWait(h)
    \/ \E h \in Handlers :
          \/ ListSessionsTitle(h)
          \/ StartSessionResume(h)
          \/ EndSessionResume(h)
          \/ EndTestScenarioResume(h)
          \/ NavigateResume(h)
    \/ Quiet /\ Sigint
    \/ SigintContextClose
    \/ SigintBrowserClose
    \/ SigintCloseShared

SpecSeq == Init /\ [][NextSeq]_vars

\* The id generators with their two sources of ids, the clock and Math.random,
\* free to repeat: sessions and scenarios are created and ended one request at a
\* time.
NextIds ==
    \/ /\ Quiet
       /\ \E h \in Handlers :
             \/ CreateTestScenario(h)
             \/ CreateTestScenarioRepeatedId(h)
             \/ StartSession(h)
             \/ StartSessionRepeatedId(h)
             \/ EndSession(h)
    \/ \E h \in Handlers :
          \/ StartSessionResume(h)
          \/ EndSessionResume(h)

SpecIds == Init /\ [][NextIds]_vars

\* The bounded logs: a scenario and its sessions are set up one request at a
\* time; then page events, console commands and state updates fill the logs,
\* between requests.
NextLog ==
    \/ /\ Quiet
       /\ Exercised = {}
       /\ \E h \in Handlers :
             \/ CreateTestScenario(h)
             \/ StartSession(h)
    \/ /\ Quiet
       /\ \E h \in Handlers :
             \/ Console(h)
             \/ UpdateScenarioStateCounting(h)
    \/ \E h \in Handlers :
          \/ StartSessionResume(h)
          \/ ConsoleEvaluate(h)
    \/ /\ Quiet
       /\ \E x \in DOMAIN session :
             \/ OnConsole(x)
             \/ OnRequest(x)

SpecLog == Init /\ [][NextLog]_vars

\* The scenario state: scenarios are created, updated and read one request at a
\* time.
NextState ==
    \E h \in Handlers :
        \/ CreateTestScenario(h)
        \/ UpdateScenarioState(h)
        \/ GetTestScenario(h)

SpecState == Init /\ [][NextState]_vars

\* The scenario metadata: scenarios are created with some, all or none of their
\* fields, read and ended, one request at a time.
NextCreate ==
    \E h \in Handlers :
        \/ CreateTestScenarioArgs(h)
        \/ GetTestScenario(h)
        \/ EndTestScenario(h)

SpecCreate == Init /\ [][NextCreate]_vars

\* Sessions of several scenarios, with session ids that may repeat once their
\* session is gone: scenarios and sessions are created and ended one request at
\* a time.
NextReuse ==
    \/ /\ Quiet
       /\ \E h \in Handlers :
             \/ CreateTestScenarioSeveral(h)
             \/ StartSession(h)
             \/ StartSessionReusedId(h)
             \/ EndSession(h)
             \/ EndTestScenario(h)
    \/ \E h \in Handlers :
          \/ StartSessionResume(h)
          \/ EndSessionResume(h)
          \/ EndTestScenarioResume(h)

SpecReuse == Init /\ [][NextReuse]_vars

\* The tool list and the dispatch: sessions are started and ended, the list is
\* read and tools are called by their names and by a name no tool has, on a
\* session or without one, one request at a time.
NextTools ==
    \/ /\ Quiet
       /\ \E h \in Handlers :
             \/ ListTools(h)
             \/ CallTool(h)
             \/ NavigateAndWait(h)
             \/ StartSession(h)
             \/ EndSession(h)
    \/ \E h \in Handlers :
          \/ ToolResume(h)
          \/ NavigateResume(h)
          \/ StartSessionResume(h)
          \/ EndSessionResume(h)

SpecTools == Init /\ [][NextTools]_vars

\* The end of a scenario: a scenario is created, moved from phase to phase,
\* joined by sessions and ended, one request at a time.
NextEnd ==
    \/ /\ Quiet
       /\ \E h \in Handlers :
             \/ CreateTestScenario(h)
             \/ UpdateScenarioStatePhase(h)
             \/ UpdateScenarioStateEmpty(h)
             \/ StartSession(h)
             \/ EndTestScenario(h)
    \/ \E h \in Handlers :
          \/ StartSessionResume(h)
          \/ EndTestScenarioResume(h)

SpecEnd == Init /\ [][NextEnd]_vars

\* The network log: sessions are started with debug mode on or off, one request
\* at a time, and their pages' requests and responses arrive at any moment.
StartSessionResumeEither(h) ==
    \/ GetOrCreateSessionNewPage(h)
    \/ StartSessionCreatedEither(h)
    \/ StartSessionMkdir(h)
    \/ StartSessionGoto(h)
    \/ StartSessionShot(h)

NextNetwork ==
    \/ Quiet /\ \E h \in Handlers : StartSession(h)
    \/ \E h \in Handlers : StartSessionResumeEither(h)
    \/ \E x \in DOMAIN session :
          \/ RequestEvent(x)
          \/ ResponseEvent(x)

SpecNetwork == Init /\ [][NextNetwork]_vars

\* The command history: sessions are started, commands run and their history
\* and the debug information read, one request at a time, while console
\* messages arrive.
NextHistory ==
    \/ /\ Quiet
       /\ \E h \in Handlers :
             \/ StartSession(h)
             \/ ConsoleFew(h)
             \/ ConsoleHistory(h)
             \/ GetDebugInfo(h)
    \/ \E h \in Handlers :
          \/ StartSessionResume(h)
          \/ ConsoleEvaluate(h)
    \/ \E x \in DOMAIN session : CaptureConsole(x)

SpecHistory == Init /\ [][NextHistory]_vars

\* The capture buffers: sessions are started, inspected and ended one request at
\* a time, and the pages' events arrive at any moment, also while a close is
\* awaited.
StartSessionResumeRecording(h) ==
    \/ GetOrCreateSessionNewPage(h)
    \/ StartSessionCreated(h)
    \/ StartSessionMkdir(h)
    \/ StartSessionGoto(h)
    \/ StartSessionRecording(h)

NextCapture ==
    \/ /\ Quiet
       /\ \E h \in Handlers :
             \/ StartSession(h)
             \/ EndSession(h)
             \/ ConsoleFew(h)
             \/ GetSessionState(h)
             \/ GetScreenshotHistory(h)
             \/ GetDebugInfo(h)
    \/ \E h \in Handlers :
          \/ StartSessionResumeRecording(h)
          \/ EndSessionResume(h)
          \/ ConsoleEvaluate(h)
          \/ GetSessionStateResume(h)
    \/ \E x \in DOMAIN session :
          \/ CaptureConsole(x)
          \/ OnPageError(x)
          \/ CaptureRequest(x)
          \/ OnResponse(x)
          \/ OnRequestFailed(x)

SpecCapture == Init /\ [][NextCapture]_vars

\* The lookups: sessions and scenarios are created, read, updated and ended one
\* request at a time, by a caller that also names ids that are gone or never
\* were.
NextLookup ==
    \/ /\ Quiet
       /\ \E h \in Handlers :
             \/ CreateTestScenario(h)
             \/ GetTestScenario(h)
             \/ UpdateScenarioStateEmpty(h)
             \/ EndTestScenario(h)
             \/ StartSession(h)
             \/ EndSession(h)
             \/ GetSessionState(h)
             \/ GetScreenshotHistory(h)
             \/ GetDebugInfo(h)
    \/ \E h \in Handlers :
          \/ EndTestScenarioResume(h)
          \/ StartSessionResume(h)
          \/ EndSessionResume(h)
          \/ GetSessionStateResume(h)

SpecLookup == Init /\ [][NextLookup]_vars

\* ------------------------------------------------------------ properties
\* The session a handler's awaited close or page operation is about.
Target(hr) ==
    IF hr.tool = "end_test_scenario" THEN hr.sessionIds[hr.i] ELSE hr.sessionId

\* C1: a completed end_test_scenario(S) whose members were all registered when it
\* started and whose closes all succeeded leaves every member absent from the
\* session registry, reports as many closed sessions as S had members, and leaves
\* S absent from the scenario registry; get_test_scenario of a scenario that is
\* not in the registry answers not-found.
C1_CascadingClose ==
    /\ (response.tool = "end_test_scenario" /\ response.result = "ok"
            /\ response.membersPresent)
          => /\ \A k \in 1..Len(response.sessionIds) :
                   response.sessionIds[k] \notin registered
             /\ response.closedCount = Len(response.sessionIds)
             /\ response.scenarioId \notin Range(testScenarios)
    /\ (response.tool = "get_test_scenario"
            /\ response.scenarioId \notin Range(testScenarios))
          => response.result = "notFound"

C1_Witness ==
    /\ response.tool = "end_test_scenario"
    /\ response.result = "ok"
    /\ response.membersPresent
    /\ Len(response.sessionIds) = 2
    /\ response.closedCount = 2

\* C2: when a member's close fails during end_test_scenario(S), the other members
\* of the snapshot are still removed from the session registry and S is still
\* removed from the scenario registry.
C2_CloseFailureDoesNotAbort ==
    (response.tool = "end_test_scenario" /\ response.result = "error")
       => /\ response.scenarioId \notin Range(testScenarios)
          /\ \A k \in 1..Len(response.sessionIds) :
                k # response.i => response.sessionIds[k] \notin registered

\* C3: an end_session(X) that found X registered leaves X absent from the session
\* registry when it returns, whether its closes succeeded or failed.
C3_EndSessionAlwaysRemoves ==
    (response.tool = "end_session" /\ response.result \in {"ok", "error"})
       => response.sessionId \notin registered

\* C4: every member of a registered scenario is a registered session.
C4_MembersAreRegistered ==
    \A s \in Range(testScenarios) : Range(memberIds(scenario[s])) \subseteq registered

\* C5: every registered session whose scenario link names a registered scenario
\* is in that scenario's membership.
C5_LinkedSessionsAreMembers ==
    \A x \in registered :
        session[x].scenarioId \in Range(testScenarios)
           => x \in Range(memberIds(scenario[session[x].scenarioId]))

\* A step in which some handler, or the shutdown sweep, invokes context.close of
\* session x.
InvokesClose(x) ==
    \/ \E h \in Handlers :
          /\ handler'[h].pc = "ctxClose"
          /\ handler[h].pc # "ctxClose"
          /\ Target(handler'[h]) = x
    \/ /\ sigint'.pc = "ctxClose"
       /\ sigint' # sigint
       /\ regOrder[sigint'.pos] = x

\* C6: the close of a session's driver handle is never invoked a second time, and
\* a session that has left the registry has had its close invoked.
C6_CloseExactlyOnce ==
    /\ [][\A x \in DOMAIN driver : InvokesClose(x) => ~driver[x].closeCalled]_vars
    /\ [](\A x \in DOMAIN driver : x \notin registered => driver[x].closeCalled)

\* The handlers that have an awaited page operation outstanding on session x.
InFlight(x) ==
    {h \in Handlers :
        \/ /\ handler[h].tool = "navigate_and_wait"
           /\ handler[h].persistent
           /\ handler[h].pc \in {"goto", "wait", "title", "shot"}
           /\ handler[h].sessionId = x
        \/ /\ handler[h].tool = "start_session"
           /\ handler[h].pc \in {"goto", "shot"}
           /\ handler[h].sessionId = x}

\* C7: no session has two awaited page operations outstanding at once.
C7_SingleFlight ==
    \A x \in DOMAIN driver : Cardinality(InFlight(x)) <= 1

\* C8: a navigate_and_wait on a session completes only after every
\* navigate_and_wait submitted on that session before it has completed.
C8_SubmissionOrder ==
    (response.tool = "navigate_and_wait" /\ response.persistent
        /\ response.result = "ok")
       => response.after = {}

\* C9: a handler that resumes from an awaited page operation on session X after X
\* has left the registry answers not-found and goes no further.
C9_RevalidateAfterAwait ==
    [][\A h \in Handlers :
          (/\ \/ handler[h].tool = "navigate_and_wait" /\ handler[h].persistent
              \/ handler[h].tool = "start_session"
           /\ handler[h].pc \in {"goto", "wait", "title", "shot"}
           /\ handler[h].sessionId \notin registered
           /\ handler'[h].pc # handler[h].pc)
             => response'.result = "notFound"]_vars

\* C10: when start_session names a scenario that is not in the scenario registry
\* and the browser starts, the session is registered, the handler goes on without
\* an error response, and no registered scenario's membership or event log
\* changes.
C10_UnscopedCreation ==
    [][\A h \in Handlers :
          (/\ handler[h].tool = "start_session"
           /\ handler[h].pc = "launch"
           /\ handler[h].scenarioId # Absent
           /\ handler[h].scenarioId \notin Range(testScenarios)
           /\ handler[h].sessionId \in registered')
             => /\ handler[h].sessionId \notin registered
                /\ handler'[h].pc = "created"
                /\ response' = NoResponse
                /\ testScenarios' = testScenarios
                /\ \A s \in Range(testScenarios) : scenario'[s] = scenario[s]]_vars

C10_Witness ==
    /\ response.tool = "start_session"
    /\ response.result = "ok"
    /\ response.scenarioId = NoSuch
    /\ response.sessionId \in registered
    /\ testScenarios # <<>>

\* C11: a session started with a scenarioId that names no scenario carries no
\* scenario link, and list_sessions filtered by that scenarioId lists nothing.
C11_UnknownScenarioUnscoped ==
    /\ \A x \in registered : session[x].scenarioId # NoSuch
    /\ (response.tool = "list_sessions" /\ response.scenarioId = NoSuch)
          => response.out = <<>>

\* C12: the id start_session works under is none of the session ids produced
\* before it, and the id create_test_scenario registers is not yet a key of the
\* scenario registry.
C12_FreshIds ==
    [][/\ \A h \in Handlers :
             (handler[h].tool # "start_session" /\ handler'[h].tool = "start_session")
                => handler'[h].sessionId \notin 1..(nextSessionId - 1)
       /\ (response'.tool = "create_test_scenario" /\ handler' = handler)
             => response'.scenarioId \notin Range(testScenarios)]_vars

\* A log of cap K whose entries are numbered in push order holds exactly the
\* last min(n, K) of the n entries pushed, in that order.
HoldsLast(buf, cap) ==
    LET n == NextItem(buf) - 1
        m == IF n < cap THEN n ELSE cap
    IN /\ Len(buf) = m
       /\ \A i \in 1..m : buf[i].n = n - m + i

\* The event log of a scenario that its sessions joined and whose caller then
\* counted t updates: the last min(N, EventCap) of those N events, in order.
EventsHoldLast(sc) ==
    LET joins == Len(sc.sessions)
        t == IF "n" \in DOMAIN sc.customData THEN sc.customData["n"] ELSE 0
        m == IF joins + t < EventCap THEN joins + t ELSE EventCap
    IN /\ Len(sc.events) = m
       /\ \A i \in 1..m :
             LET g == joins + t - m + i
             IN IF g <= joins
                THEN /\ sc.events[i].type = "session_joined"
                     /\ sc.events[i].data.sessionId = sc.sessions[g].sessionId
                ELSE /\ sc.events[i].type = "state_updated"
                     /\ sc.events[i].data.customData = ("n" :> (g - joins))

\* C13: after n pushes each bounded log (console logs, network requests, command
\* history, scenario events) holds exactly the last min(n, cap) pushed entries in
\* push order, so it is never longer than its cap; session_joined events are
\* evicted like the others.
C13_BoundedLogs ==
    /\ \A x \in DOMAIN session :
          /\ HoldsLast(session[x].consoleLogs, ConsoleLogCap)
          /\ HoldsLast(session[x].networkRequests, NetworkCap)
          /\ HoldsLast(session[x].consoleHistory, HistoryCap)
    /\ \A s \in DOMAIN scenario : EventsHoldLast(scenario[s])

C13_Witness ==
    \E s \in DOMAIN scenario :
        /\ scenario[s].sessions # <<>>
        /\ Len(scenario[s].events) = EventCap
        /\ scenario[s].events[1].type = "state_updated"
        /\ scenario[s].events[1].data.customData = ("n" :> 2)

\* A step that is an update_scenario_state call on a registered scenario.
UpdatesScenario ==
    /\ response'.tool = "update_scenario_state"
    /\ response'.result = "ok"
    /\ handler' = handler

\* C14: update_scenario_state merges its customData key by key: every key of
\* the update takes the update's value, every other key keeps its value, and no
\* key is removed.
C14_CustomDataMerge ==
    [][UpdatesScenario =>
          LET upd == response'.customData
              old == scenario[response'.scenarioId].customData
              new == scenario'[response'.scenarioId].customData
          IN /\ DOMAIN new = DOMAIN old \cup DOMAIN upd
             /\ \A k \in DOMAIN upd : new[k] = upd[k]
             /\ \A k \in DOMAIN old \ DOMAIN upd : new[k] = old[k]]_vars

C14_Witness ==
    /\ response.tool = "update_scenario_state"
    /\ response.customData = ("a" :> 3)
    /\ scenario[response.scenarioId].customData = ("a" :> 3) @@ ("b" :> 2)

\* C15: update_scenario_state with a phase replaces the scenario's phase with it,
\* whatever the phase was and whatever string is given; without a phase it
\* leaves the phase.
C15_PhaseReplaced ==
    [][UpdatesScenario =>
          scenario'[response'.scenarioId].phase =
             IF response'.phase # NoPhase THEN response'.phase
             ELSE scenario[response'.scenarioId].phase]_vars

\* The session_left event of session x.
SessionLeft(x) == [type |-> "session_left", data |-> EventData(x, NoPhase, <<>>)]

\* C16: removeSession of a member deletes its membership entry and appends
\* exactly one session_left event, touching nothing else; removeSession of an id
\* that is not a member returns the scenario as it was; so a second removeSession
\* changes nothing.
C16_RemoveSessionIdempotent ==
    \A s \in DOMAIN scenario, x \in 1..MaxSessions :
        LET sc == scenario[s]
            r == removeSession(sc, x)
        IN /\ x \in Range(memberIds(sc))
                 => /\ r.sessions = SelectSeq(sc.sessions, LAMBDA e : e.sessionId # x)
                    /\ r.events = Append(sc.events, SessionLeft(x))
                    /\ r.phase = sc.phase
                    /\ r.customData = sc.customData
           /\ x \notin Range(memberIds(sc)) => r = sc
           /\ removeSession(r, x) = r

C16_Witness ==
    \E h \in Handlers :
        /\ handler[h].tool = "end_session"
        /\ handler[h].pc = "ctxClose"
        /\ session[handler[h].sessionId].scenarioId \in Range(testScenarios)
        /\ LET sc == scenario[session[handler[h].sessionId].scenarioId]
           IN /\ handler[h].sessionId \notin Range(memberIds(sc))
              /\ sc.sessions # <<>>
              /\ Cardinality({i \in 1..Len(sc.events) :
                                 sc.events[i] = SessionLeft(handler[h].sessionId)}) = 1

\* C17: end_session of an id that is not in the session registry answers
\* not-found, without an error, and changes neither registry, no scenario and no
\* driver handle.
C17_SecondEndSessionNoOp ==
    [][(/\ response'.tool = "end_session"
        /\ handler' = handler
        /\ response'.sessionId \notin registered)
          => /\ response'.result = "notFound"
             /\ UNCHANGED <<registered, session, testScenarios, scenario, driver>>]_vars

C17_Witness ==
    /\ response.tool = "end_session"
    /\ response.result = "notFound"
    /\ response.sessionId \in Range(regOrder) \ registered
    /\ driver[response.sessionId].browser = "closed"

\* C18: end_session(X) of a scenario-linked session takes X, and nothing else,
\* out of its scenario's membership when it starts and out of the session
\* registry when its closes have succeeded: the other sessions, the other
\* membership entries and their order, the phase and the customData stay.
C18_EndSessionFrame ==
    /\ [][\A h \in Handlers :
             LET x == handler'[h].sessionId
             IN (/\ handler[h].pc = "idle"
                 /\ handler'[h].tool = "end_session")
                   => /\ registered' = registered
                      /\ testScenarios' = testScenarios
                      /\ \A y \in registered : session'[y] = session[y]
                      /\ \A s \in Range(testScenarios) :
                            /\ scenario'[s].sessions =
                                  IF s = session[x].scenarioId
                                  THEN SelectSeq(scenario[s].sessions,
                                                 LAMBDA e : e.sessionId # x)
                                  ELSE scenario[s].sessions
                            /\ scenario'[s].phase = scenario[s].phase
                            /\ scenario'[s].customData = scenario[s].customData]_vars
    /\ [][\A h \in Handlers :
             (/\ handler[h].tool = "end_session"
              /\ handler'[h].pc # handler[h].pc)
                => /\ testScenarios' = testScenarios
                   /\ \A s \in Range(testScenarios) : scenario'[s] = scenario[s]
                   /\ registered' = IF response'.result = "ok"
                                    THEN registered \ {handler[h].sessionId}
                                    ELSE registered
                   /\ \A y \in registered' : session'[y] = session[y]]_vars
    /\ [](response.tool = "end_session" /\ response.result = "ok"
             => /\ response.sessionId \notin registered
                /\ \A s \in Range(testScenarios) :
                      response.sessionId \notin Range(memberIds(scenario[s])))

C18_Witness ==
    /\ response.tool = "end_session"
    /\ response.result = "ok"
    /\ response.sessionId = 1
    /\ registered = {2}
    /\ \E s \in Range(testScenarios) : memberIds(scenario[s]) = <<2>>

\* C19: when start_session names a registered scenario, the step that puts the
\* session into the session registry also appends it to the scenario's
\* membership, with status active, the given role or participant, and the given
\* label or the session id; a registered session of a start_session in flight is
\* a member of its registered scenario.
C19_ScopedCreation ==
    /\ [][\A h \in Handlers :
             LET x == handler[h].sessionId
                 s == handler[h].scenarioId
             IN (/\ handler[h].tool = "start_session"
                 /\ handler[h].pc = "launch"
                 /\ s \in Range(testScenarios)
                 /\ x \in registered')
                   => /\ x \notin registered
                      /\ scenario'[s].sessions =
                            Append(scenario[s].sessions,
                                   [sessionId |-> x,
                                    role |-> IF handler[h].role = "" THEN "participant"
                                             ELSE handler[h].role,
                                    label |-> IF handler[h].label = "" THEN ToString(x)
                                              ELSE handler[h].label,
                                    status |-> "active"])]_vars
    /\ [](\A h \in Handlers :
             (/\ handler[h].tool = "start_session"
              /\ handler[h].sessionId \in registered
              /\ handler[h].scenarioId \in Range(testScenarios))
                => handler[h].sessionId \in
                      Range(memberIds(scenario[handler[h].scenarioId])))

C19_Witness ==
    /\ registered = {1, 2}
    /\ \E s \in Range(testScenarios) :
          scenario[s].sessions =
             <<[sessionId |-> 1, role |-> "host", label |-> "P1", status |-> "active"],
               [sessionId |-> 2, role |-> "participant", label |-> "2",
                status |-> "active"]>>

\* C20: get_test_scenario changes no scenario; its summary lists the membership
\* entries in join order, its sessionCount is their number and its eventCount the
\* length of the event log; phase and customData are the scenario's.
C20_GetSummaryReadOnly ==
    [][(/\ response'.tool = "get_test_scenario"
        /\ response'.result = "ok"
        /\ handler' = handler)
          => LET sc == scenario[response'.scenarioId]
                 summary == response'.out
             IN /\ UNCHANGED <<registered, session, testScenarios, scenario>>
                /\ summary.sessions = sc.sessions
                /\ summary.sessionCount = Len(summary.sessions)
                /\ summary.eventCount = Len(sc.events)
                /\ summary.phase = sc.phase
                /\ summary.customData = sc.customData]_vars

C20_Witness ==
    /\ response.tool = "get_test_scenario"
    /\ response.result = "ok"
    /\ response.out.sessionCount = 1
    /\ response.out.eventCount = 3
    /\ memberIds(scenario[response.scenarioId]) = <<2>>

\* The position in the registry's entry list from which the sweep of the SIGINT
\* handler goes on.
SweepFrom == IF sigint.pc = "idle" THEN 1 ELSE sigint.pos + 1

\* The entries the sweep has still to visit.
SweepRest == {k \in SweepFrom..Len(regOrder) : regOrder[k] \in registered}

\* A step in which the sweep leaves a session: SIGINT arrives, or a close of
\* the current session has failed, or its browser's close has returned.
SweepMoves ==
    /\ sigint.pc \in {"idle", "ctxClose", "brClose"}
    /\ sigint' # sigint
    /\ ~(sigint.pc = "ctxClose" /\ sigint'.pc = "brClose")

\* C21: on SIGINT the sweep goes from each session to the next registered one and
\* invokes its close, whether the closes of the session before succeeded or
\* failed; when no session is left the registry is emptied, and only then is the
\* close of a shared browser invoked: by then a close has been invoked on every
\* session that was created.
C21_ShutdownSweep ==
    /\ [][SweepMoves =>
             IF SweepRest # {}
             THEN /\ sigint'.pc = "ctxClose"
                  /\ sigint'.pos \in SweepRest
                  /\ \A k \in SweepRest : sigint'.pos <= k
                  /\ driver'[regOrder[sigint'.pos]].closeCalled
                  /\ registered' = registered
                  /\ UNCHANGED sharedVars
             ELSE /\ registered' = {}
                  /\ sigint'.pc \in {"closeHeadless", "closeHeaded", "exited"}]_vars
    /\ [](sigint.pc \in {"closeHeadless", "closeHeaded"}
             => /\ registered = {}
                /\ \A x \in DOMAIN driver : driver[x].closeCalled)
    /\ [][(headlessBrowser' # headlessBrowser \/ headedBrowser' # headedBrowser)
             => \/ sigint.pc \in {"closeHeadless", "closeHeaded"}
                \/ sigint' = sigint]_vars

C21_Witness ==
    /\ sigint.pc = "closeHeadless"
    /\ Len(regOrder) = 2
    /\ driver[1].closeCalled /\ driver[1].context = "open"
    /\ driver[2].closeCalled /\ driver[2].browser = "closed"

\* A step of a listener: no invocation moves and a session's buffers change.
ListenerStep(x) ==
    /\ handler' = handler
    /\ sigint' = sigint
    /\ x \in DOMAIN session'
    /\ session'[x] # session[x]

\* C22: once a close of a session's context has been invoked the session has no
\* listener left, and no listener changes a session whose context has had its
\* close invoked.
C22_UnsubscribedBeforeClose ==
    /\ [](\A x \in DOMAIN session : driver[x].closeCalled => ~session[x].listening)
    /\ [][\A x \in DOMAIN session : ListenerStep(x) => ~driver[x].closeCalled]_vars

\* A response that reports an error raised while the invocation was handled, and
\* one that has the isError flag.
ReportsFailure(r) == r.result \in {"error", "failed"}
IsError(r) == r.result = "error"

\* C23: every response that reports an error raised while the invocation was
\* handled has the isError flag set.
C23_ErrorsFlagged == ReportsFailure(response) => IsError(response)

\* The tools that look a session up, and the tools that look a scenario up.
SessionLookups == {"get_session_state", "get_screenshot_history", "get_debug_info"}
ScenarioLookups == {"get_test_scenario", "update_scenario_state", "end_test_scenario"}

\* The invocation is one of the lookups and its id is not in the registry.
Missing(r) ==
    \/ r.tool \in SessionLookups /\ r.sessionId \notin registered
    \/ r.tool \in ScenarioLookups /\ r.scenarioId \notin Range(testScenarios)

\* C24: a lookup tool called with an id that is not in its registry returns at
\* once with an ordinary not-found result, and the call changes neither
\* registry, no session (its flags and capture buffers), no scenario (its
\* membership, phase and events) and no driver handle.
C24_LookupNotFound ==
    [][/\ \A h \in Handlers :
             (handler[h].pc = "idle" /\ handler'[h].pc # "idle") => ~Missing(handler'[h])
       /\ (handler' = handler /\ Missing(response'))
             => /\ response'.result = "notFound"
                /\ UNCHANGED <<registered, regOrder, session, testScenarios, scenario,
                               driver>>]_vars

C24_Witness ==
    /\ response.tool = "update_scenario_state"
    /\ response.result = "notFound"
    /\ response.scenarioId \in ScenarioArgs
    /\ registered # {}
    /\ \E x \in registered : session[x].recordScreenshots

\* The invocation names a session and runs on a context that is not that
\* session's: the session was not in the registry when the call looked it up.
OffSession(r) ==
    /\ r.tool = "navigate_and_wait"
    /\ r.sessionId # Absent
    /\ ~r.persistent

\* C25: a navigate_and_wait that names a sessionId which is not in the session
\* registry is answered not-found, and no such call is in flight on a context
\* of its own.
C25_MissingSessionNotFound ==
    /\ \A h \in Handlers : ~OffSession(handler[h])
    /\ OffSession(response) => response.result = "notFound"

\* A step of a navigate_and_wait that runs on a registered session.
OnSession(h) ==
    /\ handler'[h].pc # handler[h].pc
    /\ \/ handler[h].tool = "navigate_and_wait" /\ handler[h].persistent
       \/ handler'[h].tool = "navigate_and_wait" /\ handler'[h].persistent

Listed(r) ==
    SelectSeq(persistentSessions,
              LAMBDA x : /\ r.scenarioId = Absent \/ session[x].scenarioId = r.scenarioId
                         /\ r.roleFilter = "" \/ session[x].role = r.roleFilter)

\* C27: list_sessions answers with exactly the registered sessions whose
\* scenarioId is the scenarioId filter, when one is given, and whose role is the
\* role filter, when one is given, each once and in insertion order; no step of
\* it changes a registry, a session or a scenario.
C27_ListSessionsFilter ==
    /\ [][response'.tool = "list_sessions" => response'.out = Listed(response')]_vars
    /\ [][(\E h \in Handlers : /\ handler'[h].pc # handler[h].pc
                               /\ "list_sessions" \in {handler[h].tool, handler'[h].tool})
             => UNCHANGED <<registered, regOrder, session, testScenarios, scenario,
                            driver>>]_vars

C27_Witness ==
    /\ response.tool = "list_sessions"
    /\ response.roleFilter = "participant"
    /\ response.scenarioId \in Range(testScenarios)
    /\ response.out = <<2>>
    /\ registered = {1, 2}
    /\ session[1].scenarioId = response.scenarioId
    /\ session[1].role = "host"

\* The value of a metadata field the caller gave, or the empty default.
Given(value, empty) == IF value = Omitted THEN empty ELSE value
GivenObject(value, empty) == IF value = None THEN empty ELSE value[1]

\* C28: create_test_scenario succeeds whatever fields are left out; each field
\* left out takes its empty default (name, description and experimentName the
\* empty string, testParameters the empty map, tags the empty list), each field
\* given is stored; the scenario is registered under an id that was not
\* registered, with phase created and no member.
C28_CreateDefaults ==
    [][(response'.tool = "create_test_scenario" /\ handler' = handler)
          => LET args == response'.metadata
                 sc == scenario'[response'.scenarioId]
             IN /\ response'.result = "ok"
                /\ response'.scenarioId \notin Range(testScenarios)
                /\ response'.scenarioId \in Range(testScenarios')
                /\ sc.metadata.name = Given(args.name, "")
                /\ sc.metadata.description = Given(args.description, "")
                /\ sc.metadata.experimentName = Given(args.experimentName, "")
                /\ sc.metadata.testParameters = GivenObject(args.testParameters, <<>>)
                /\ sc.metadata.tags = GivenObject(args.tags, <<>>)
                /\ sc.phase = "created"
                /\ sc.sessions = <<>>]_vars

\* The registered scenarios that have session x in their membership.
ScenariosOf(x) ==
    {s \in Range(testScenarios) : x \in Range(memberIds(scenario[s]))}

Capture(sess) ==
    [consoleLogs |-> sess.consoleLogs, errors |-> sess.errors,
     networkRequests |-> sess.networkRequests, consoleHistory |-> sess.consoleHistory,
     debugMode |-> sess.debugMode, recordScreenshots |-> sess.recordScreenshots,
     screenshots |-> sess.screenshots]

\* Every session but a keeps its buffers, flags and screenshot list in this step.
OthersKept(a) ==
    \A b \in DOMAIN session \ {a} :
        /\ b \in DOMAIN session'
        /\ Capture(session'[b]) = Capture(session[b])

\* The steps of the console and start_session invocations.
CaptureTools == {"console", "start_session"}

\* C30: a driver event and a step of a console or start_session invocation for
\* session A leave the capture buffers, the flags and the screenshot list of
\* every other session B unchanged.
C30_OtherSessionsUntouched ==
    [][/\ (handler' = handler /\ response' = NoResponse) => \E a \in DOMAIN session : OthersKept(a)
       /\ (handler' = handler /\ response'.tool \in CaptureTools) => OthersKept(NoSuch)
       /\ \A h \in Handlers :
             /\ (handler[h].pc = "idle" /\ handler'[h].pc # "idle"
                    /\ handler'[h].tool \in CaptureTools)
                  => OthersKept(handler'[h].sessionId)
             /\ (handler[h].pc # "idle" /\ handler'[h].pc # handler[h].pc
                    /\ handler[h].tool \in CaptureTools)
                  => OthersKept(handler[h].sessionId)]_vars

\* Two sessions are registered; the first has a recorded screenshot and a
\* console message, the second a console command and no console message.
C30_Witness ==
    /\ registered = {1, 2}
    /\ Len(session[1].screenshots) = 1
    /\ Len(session[1].consoleLogs) = 1
    /\ session[1].consoleHistory = <<>>
    /\ Len(session[2].consoleHistory) = 1
    /\ session[2].consoleLogs = <<>>

\* The last n entries of buf, all of them when there are fewer.
tail(buf, n) == SubSeq(buf, IF Len(buf) > n THEN Len(buf) - n + 1 ELSE 1, Len(buf))

\* C31: console_history with limit n (20 when none is given) returns the last
\* min(n, size) commands of the session's history in insertion order, at most n
\* of them, and neither it nor get_debug_info changes a capture buffer.
C31_HistoryTail ==
    [][/\ (response'.tool = "console_history" /\ response'.result = "ok")
            => LET n == IF response'.limit = None THEN DefaultLimit ELSE response'.limit[1]
               IN /\ Len(response'.out) <= n
                  /\ response'.out = tail(session[response'.sessionId].consoleHistory, n)
       /\ response'.tool \in {"console_history", "get_debug_info"}
            => UNCHANGED <<session, registered, regOrder>>]_vars

\* C32: tools/list returns the same non-empty list in every state, with
\* screenshot, test_login and run_accessibility_check in it; tools/call takes
\* every name of the list to a handler, not to the 'Unknown tool' error; and a
\* name that is not in the list gets an error result.
C32_AdvertisedToolsDispatched ==
    /\ [](\A name \in AdvertisedTools : Branch(name) # "default")
    /\ [][response'.tool = "tools/list"
            => /\ response'.out = <<AdvertisedTools>>
               /\ {"screenshot", "test_login", "run_accessibility_check"}
                     \subseteq response'.out[1]
               /\ response'.result = "ok"]_vars
    /\ [][response'.tool \notin AdvertisedTools \cup {"none", "tools/list"}
            => response'.result = "error"]_vars
    /\ [][\A h \in Handlers :
             (handler'[h].pc = "work" /\ handler[h].pc # "work")
                => handler'[h].tool \in AdvertisedTools]_vars

\* A name no tool has was called on a registered session and got the error
\* result.
C32_Witness ==
    /\ response.tool \in UnknownArgs
    /\ response.result = "error"
    /\ response.persistent
    /\ response.sessionId \in registered

\* C33: in the step in which end_test_scenario removes scenario S from the
\* scenario registry, no session that is a member of S or is linked to S is left
\* in the session registry, also when a start_session naming S runs at the same
\* time.
C33_NoSurvivorOfRemovedScenario ==
    [][\A s \in Range(testScenarios) \ Range(testScenarios') :
          \A x \in registered' :
             /\ session'[x].scenarioId # s
             /\ x \notin Range(memberIds(scenario[s]))]_vars

\* C34: when start_session returns an error result, the session id of that call
\* is in no registry entry and in no scenario's membership: no session the
\* caller was never told of is left registered and open.
C34_FailedStartLeavesNothing ==
    (response.tool = "start_session" /\ response.result = "error")
       => /\ response.sessionId \notin registered
          /\ \A s \in Range(testScenarios) :
                response.sessionId \notin Range(memberIds(scenario[s]))

\* C35: end_test_scenario sets the scenario's phase to completed, whatever the
\* phase was, after the close of every member of its snapshot has been attempted
\* and in the step that removes the scenario; it removes no scenario whose phase
\* is not completed, and it completes no scenario that it does not remove.
C35_CompletedThenRemoved ==
    /\ [][\A s \in Range(testScenarios) \ Range(testScenarios') :
             /\ response'.tool = "end_test_scenario"
             /\ response'.scenarioId = s
             /\ response'.result = "ok"
             /\ response'.phases = <<scenario[s].phase, "completed">>
             /\ \A k \in 1..Len(response'.sessionIds) :
                   response'.sessionIds[k] \notin registered']_vars
    /\ [][\A h \in Handlers :
             (handler[h].tool = "end_test_scenario" /\ handler'[h] # handler[h])
                => \A s \in Range(testScenarios') : scenario'[s].phase = scenario[s].phase]_vars

\* end_test_scenario closed a member of a scenario that was in the phase failed,
\* and removed the scenario.
C35_Witness ==
    /\ response.tool = "end_test_scenario"
    /\ response.result = "ok"
    /\ response.closedCount = 1
    /\ response.phases = <<"failed", "completed">>
    /\ response.scenarioId \notin Range(testScenarios)

\* The closedCount of end_test_scenario invocation h after this step: the one in
\* its response when the step finishes it.
CountAfter(h) ==
    IF handler'[h].pc = "idle" THEN response'.closedCount ELSE handler'[h].closedCount

\* C36: the count of end_test_scenario grows by one exactly in the steps in
\* which that invocation removes a session from the session registry, so the
\* count it returns is the number of sessions it closed and removed itself:
\* a member ended before, or ended by an end_session running at the same time,
\* is not counted.
C36_CountsOwnCloses ==
    [][\A h \in Handlers :
          (/\ handler[h].tool = "end_test_scenario"
           /\ handler'[h] # handler[h]
           /\ sigint'.pc # "exited")
             => CountAfter(h) = handler[h].closedCount + Cardinality(registered \ registered')]_vars

\* The log `after` is the log `before` with one more event, `event`, as its
\* newest entry: the oldest entry is dropped when the log was full.
Logged(before, after, event) ==
    /\ after # <<>>
    /\ after[Len(after)] = event
    /\ SubSeq(after, 1, Len(after) - 1) =
          IF Len(before) < EventCap THEN before ELSE Tail(before)

\* C37: every addSession appends one session_joined event and every updateState
\* one state_updated event with the update's payload, also when the update has
\* neither phase nor customData, each as the newest entry of the scenario's
\* log.
C37_OneEventPerMutation ==
    /\ [][\A h \in Handlers :
             LET x == handler[h].sessionId
                 s == handler[h].scenarioId
             IN (/\ handler[h].tool = "start_session"
                 /\ handler[h].pc = "launch"
                 /\ s \in Range(testScenarios)
                 /\ x \in registered')
                   => Logged(scenario[s].events, scenario'[s].events,
                             [type |-> "session_joined",
                              data |-> EventData(x, NoPhase, <<>>)])]_vars
    /\ [][UpdatesScenario
            => Logged(scenario[response'.scenarioId].events,
                      scenario'[response'.scenarioId].events,
                      [type |-> "state_updated",
                       data |-> EventData(Absent, response'.phase, response'.customData)])]_vars

\* A session joined a scenario, then an update with a phase and an update with
\* neither phase nor customData were applied.
C37_Witness ==
    /\ response.tool = "update_scenario_state"
    /\ response.result = "ok"
    /\ response.phase = NoPhase
    /\ LET events == scenario[response.scenarioId].events
       IN /\ Len(events) = 3
          /\ events[1].type = "session_joined"
          /\ events[2] = [type |-> "state_updated",
                          data |-> EventData(Absent, "failed", <<>>)]
          /\ events[3] = [type |-> "state_updated",
                          data |-> EventData(Absent, NoPhase, <<>>)]

\* Invocation record hr has made a one-shot context on the shared browser:
\* browser.newContext has returned it.
HoldsTempContext(hr) ==
    /\ hr.tool \in PageTools \cup UnknownArgs
    /\ ~hr.persistent
    /\ hr.pc \in {"tmpPage", "goto", "wait", "title", "shot", "work", "tmpClose"}

\* C38: a tools/call that made a one-shot context returns only after its
\* context.close() has returned, on the error path as on success, and no step of
\* it adds to the session registry.
C38_TempContextClosed ==
    [][\A h \in Handlers :
          HoldsTempContext(handler[h])
             => /\ handler'[h].pc = "idle"
                   => handler[h].pc = "tmpClose" /\ response'.result = "ok"
                /\ handler'[h] # handler[h] => UNCHANGED <<registered, regOrder>>]_vars

\* The invocations whose chromium.launch for the shared browser of this kind
\* is pending.
Launching(headless) ==
    {h \in Handlers : handler[h].pc = "tmpLaunch" /\ handler[h].headless = headless}

\* C39: of each kind, headless and headed, at most one shared browser is
\* launched, the one the shared variable holds and shutdown closes: no launch is
\* pending while the variable holds a browser or another launch is pending, and
\* a launch that returns finds the variable empty.
C39_OneSharedBrowser ==
    /\ [](\A headless \in BOOLEAN :
             Cardinality(Launching(headless))
                + (IF SharedBrowser(headless) = "null" THEN 0 ELSE 1) <= 1)
    /\ [][\A h \in Handlers :
             (handler[h].pc = "tmpLaunch" /\ handler'[h].pc = "tmpContext")
                => SharedBrowser(handler[h].headless) = "null"]_vars

\* The network log `after` is the log `before` with the status of its entry k
\* changed and nothing else.
StatusSet(before, after, k) ==
    /\ Len(after) = Len(before)
    /\ \A j \in 1..Len(before) :
          IF j = k THEN /\ after[j].n = before[j].n
                        /\ after[j].url = before[j].url
          ELSE after[j] = before[j]

\* A step of a listener of session x that is not the push of a request.
NotPushed(x) ==
    /\ handler' = handler
    /\ response' = NoResponse
    /\ x \in DOMAIN session'
    /\ session'[x].networkRequests # session[x].networkRequests
    /\ session'[x].networkRequests #
          pushCapped(session[x].networkRequests,
                     [n |-> NextItem(session[x].networkRequests),
                      url |-> session'[x].networkRequests[Len(session'[x].networkRequests)].url,
                      status |-> ""],
                     NetworkCap)

\* C40: with debug mode on, a response event changes the status of the first
\* entry of the network log that has its url, changes no other entry and not
\* the log's length; with debug mode off, request and response events leave the
\* network log as it is.
C40_ResponseUpdatesFirst ==
    [][\A x \in DOMAIN session :
          /\ (handler' = handler /\ x \in DOMAIN session' /\ ~session[x].debugMode)
                => session'[x].networkRequests = session[x].networkRequests
          /\ NotPushed(x)
                => \E k \in 1..Len(session[x].networkRequests) :
                      /\ StatusSet(session[x].networkRequests,
                                   session'[x].networkRequests, k)
                      /\ \A j \in 1..(k - 1) :
                            session[x].networkRequests[j].url #
                               session[x].networkRequests[k].url]_vars

\* A session with debug mode on has two requests of one url in its log, the
\* first with a status and the second without; a session with debug mode off
\* is listening and its log is empty.
C40_Witness ==
    /\ registered = {1, 2}
    /\ session[1].debugMode
    /\ Len(session[1].networkRequests) = 2
    /\ session[1].networkRequests[1].url = session[1].networkRequests[2].url
    /\ session[1].networkRequests[1].status = "404"
    /\ session[1].networkRequests[2].status = ""
    /\ ~session[2].debugMode
    /\ session[2].listening
    /\ session[2].networkRequests = <<>>

====
